---- MODULE Spec2Model ----
(***************************************************************************)
(* The Thumb front end (translate_thumb.cpp) and the constant-memory-read  *)
(* optimisation pass (a32_constant_memory_reads_pass.cpp) of dynarmic as a *)
(* state machine.                                                          *)
(*                                                                         *)
(* A u32 is a record [hi, lo] of two 16-bit halves, so that 32-bit         *)
(* arithmetic keeps its width (mod 2^32) within TLC's integers.            *)
(***************************************************************************)
EXTENDS Integers, Sequences, FiniteSets, TLC

VARIABLES
    mem,               \* guest memory: aligned word address -> u32 (the program image)
    fill,              \* the u32 every other aligned word of guest memory holds
    read_only,         \* the addresses for which cb->IsReadOnlyMemory answers true
    ltr,               \* the build evaluates call arguments left to right (else right to left)
    descriptor,        \* the LocationDescriptor TranslateThumb was called with (arm_pc)
    current_location,  \* visitor.ir.current_location.arm_pc
    block,             \* visitor.ir.block: the IR instruction list
    term,              \* visitor.ir.block's terminator
    cycle_count,       \* visitor.ir.block.cycle_count
    should_continue,   \* the loop variable of TranslateThumb
    inst_size,         \* the size of the instruction fetched by the current iteration
    pc,                \* position: "fetch", "advance", "done", "aborted"
    visited,           \* history: one record per guest instruction given to the visitor
    set_term_calls,    \* history: the number of ir.SetTerm calls made so far
    mem_reads,         \* history: the addresses passed to memory_read_32, in order
    cb_log,            \* history: the callbacks the pass made, in order
    pass_runs,         \* the number of completed runs of A32ConstantMemoryReads
    prev_block,        \* history: the block as it was before the latest pass run
    x64                \* the vector floating-point emitter: its inputs and the host state

vars == << mem, fill, read_only, ltr, descriptor, current_location, block, term,
           cycle_count, should_continue, inst_size, pc, visited, set_term_calls,
           mem_reads, cb_log, pass_runs, prev_block, x64 >>

(***************************************************************************)
(* Bounds of the model.                                                    *)
(***************************************************************************)
\* The number of guest instructions placed in front of the instruction under study.
MaxPrefix == 1
\* The number of times the optimisation pass is run on one block.
MaxPassRuns == 2
\* The length of the IR blocks the pass is given directly.
MaxBlockLen == 3

(***************************************************************************)
(* 32-bit and 16-bit arithmetic.                                           *)
(***************************************************************************)
U32(hi, lo) == [hi |-> hi, lo |-> lo]

Zero32 == U32(0, 0)

\* a + b (mod 2^32)
Add32(a, b) ==
    LET s == a.lo + b.lo
    IN  U32((a.hi + b.hi + (s \div 65536)) % 65536, s % 65536)

\* a & 0xFFFFFFFC
AlignDown4(a) == U32(a.hi, a.lo - (a.lo % 4))

\* (a & 0x2) != 0
Bit1Set(a) == (a.lo \div 2) % 2 = 1

\* Bits hi..lo of the 16-bit word h.
Bits(h, hi, lo) == (h \div (2 ^ lo)) % (2 ^ (hi - lo + 1))

\* h & mask on 16-bit words, for a mask of leading ones (0xF800, 0xFFC0, ...: every
\* mask of the decoder table and of ReadThumbInstruction is one): the bits of h
\* below the lowest set bit of the mask, which is 2^16 - mask, are cleared.
BitAnd16(h, mask) == h - (h % (65536 - mask))

(***************************************************************************)
(* Guest memory: memory_read_32 of the translator and MemoryReadN of the   *)
(* pass read the same image.                                               *)
(***************************************************************************)
\* The aligned word at address a (a is a multiple of 4).
GuestWord(a) == IF a \in DOMAIN mem THEN mem[a] ELSE fill

\* The byte at address a (little-endian).
GuestByte(a) ==
    LET w == GuestWord(U32(a.hi, a.lo - (a.lo % 4)))
        k == a.lo % 4
    IN  CASE k = 0 -> w.lo % 256
          [] k = 1 -> w.lo \div 256
          [] k = 2 -> w.hi % 256
          [] k = 3 -> w.hi \div 256

Plus(a, n) ==
    LET s == a.lo + n
    IN  U32((a.hi + (s \div 65536)) % 65536, s % 65536)

MemoryRead8(vaddr) == GuestByte(vaddr)
MemoryRead16(vaddr) == GuestByte(vaddr) + 256 * GuestByte(Plus(vaddr, 1))
MemoryRead32(vaddr) == U32(MemoryRead16(Plus(vaddr, 2)), MemoryRead16(vaddr))
\* A u64 as the pair of its halves.
MemoryRead64(vaddr) == [hi32 |-> MemoryRead32(Plus(vaddr, 4)), lo32 |-> MemoryRead32(vaddr)]

\* The halfword at 2-aligned address a of the image that holds the halfwords
\* of code from address base on, and the word f everywhere else.
HalfAt(base, code, f, a) ==
    IF \E k \in 1..Len(code) : Add32(base, U32(0, 2 * (k - 1))) = a
    THEN code[CHOOSE k \in 1..Len(code) : Add32(base, U32(0, 2 * (k - 1))) = a]
    ELSE IF Bit1Set(a) THEN f.hi ELSE f.lo

BuildImage(base, code, f) ==
    [a \in {AlignDown4(Add32(base, U32(0, 2 * (k - 1)))) : k \in 1..Len(code)} |->
        U32(HalfAt(base, code, f, Add32(a, U32(0, 2))), HalfAt(base, code, f, a))]

IsReadOnlyMemory(vaddr) == vaddr \in read_only

(***************************************************************************)
(* IR values, instructions and terminators.                                *)
(***************************************************************************)
\* An immediate of type t (v: its low 32 bits, vh: bits 63..32 of a U64).
Imm(t, v, vh) == [t |-> t, v |-> v, vh |-> vh, ref |-> 0]
Imm1(x) == Imm("U1", U32(0, x), Zero32)
Imm8(x) == Imm("U8", U32(0, x), Zero32)
Imm16(x) == Imm("U16", U32(0, x), Zero32)
Imm32(w) == Imm("U32", w, Zero32)
Imm64(whi, wlo) == Imm("U64", wlo, whi)
RegRef(r) == Imm("RegRef", U32(0, r), Zero32)
\* The result of the instruction at index i of the block.
Ref(i) == [t |-> "Opaque", v |-> Zero32, vh |-> Zero32, ref |-> i]

IsImmediate(val) == val.t # "Opaque"

Inst(op, args) == [op |-> op, args |-> args]

AreAllArgsImmediates(inst) == \A k \in 1..Len(inst.args) : IsImmediate(inst.args[k])

NoTerm == [kind |-> "Invalid", arm_pc |-> Zero32]
Interpret(loc) == [kind |-> "Interpret", arm_pc |-> loc]
ReturnToDispatch == [kind |-> "ReturnToDispatch", arm_pc |-> Zero32]

PC == 15
SP == 13
R8 == 8

(***************************************************************************)
(* The IR emitter.  A visitor's emission e is the sequence of instructions *)
(* it has appended so far; the block holds Len(block) instructions before  *)
(* it, so the instruction appended next gets index Len(block) + Len(e) + 1.*)
(***************************************************************************)
Emit(e, op, args) == Append(e, Inst(op, args))

\* The value of the k-th last instruction of the emission e (k = 0: the last).
Back(e, k) == Ref(Len(block) + Len(e) - k)

GetRegister(e, r) == Emit(e, "A32GetRegister", <<RegRef(r)>>)
SetRegister(e, r, val) == Emit(e, "A32SetRegister", <<RegRef(r), val>>)
GetCFlag(e) == Emit(e, "A32GetCFlag", <<>>)
SetNFlag(e, val) == Emit(e, "A32SetNFlag", <<val>>)
SetZFlag(e, val) == Emit(e, "A32SetZFlag", <<val>>)
SetCFlag(e, val) == Emit(e, "A32SetCFlag", <<val>>)
SetVFlag(e, val) == Emit(e, "A32SetVFlag", <<val>>)
ALUWritePC(e, val) == Emit(e, "A32ALUWritePC", <<val>>)
CallSupervisor(e, val) == Emit(e, "A32CallSupervisor", <<val>>)
ReadMemory32(e, addr) == Emit(e, "A32ReadMemory32", <<addr>>)
WriteMemory8(e, addr, val) == Emit(e, "A32WriteMemory8", <<addr, val>>)
WriteMemory16(e, addr, val) == Emit(e, "A32WriteMemory16", <<addr, val>>)
WriteMemory32(e, addr, val) == Emit(e, "A32WriteMemory32", <<addr, val>>)
Unary(e, op, val) == Emit(e, op, <<val>>)
Binary(e, op, a, b) == Emit(e, op, <<a, b>>)

\* Add/SubWithCarry: the operation, then the extraction of carry and of overflow.
\* Afterwards result = Back(e, 2), carry = Back(e, 1), overflow = Back(e, 0).
WithCarry(e, op, a, b, carry_in) ==
    LET e1 == Emit(e, op, <<a, b, carry_in>>)
        e2 == Emit(e1, "GetCarryFromOp", <<Back(e1, 0)>>)
    IN  Emit(e2, "GetOverflowFromOp", <<Back(e1, 0)>>)

\* A shift or rotate: the operation, then the extraction of the carry.
\* Afterwards result = Back(e, 1), carry = Back(e, 0).
Shift(e, op, x, n, carry_in) ==
    LET e1 == Emit(e, op, <<x, n, carry_in>>)
    IN  Emit(e1, "GetCarryFromOp", <<Back(e1, 0)>>)

\* ir.Add(a, b)
Add(e, a, b) == Emit(e, "AddWithCarry", <<a, b, Imm1(0)>>)

\* The two calls ir.GetRegister(first), ir.GetRegister(second) written as arguments
\* of one call: C++ leaves their order to the build.
\* Afterwards first = FirstArg(e), second = SecondArg(e).
GetRegisters(e, first, second) ==
    IF ltr THEN GetRegister(GetRegister(e, first), second)
    ELSE GetRegister(GetRegister(e, second), first)
FirstArg(e) == IF ltr THEN Back(e, 1) ELSE Back(e, 0)
SecondArg(e) == IF ltr THEN Back(e, 0) ELSE Back(e, 1)

\* ir.AlignPC(4)
AlignPC4 == AlignDown4(Add32(current_location, U32(0, 4)))

\* ir.SetNFlag(ir.MostSignificantBit(r)); ir.SetZFlag(ir.IsZero(r));
SetNZ(e, r) ==
    LET e1 == Unary(e, "MostSignificantBit", r)
        e2 == SetNFlag(e1, Back(e1, 0))
        e3 == Unary(e2, "IsZero", r)
    IN  SetZFlag(e3, Back(e3, 0))

(***************************************************************************)
(* What a visitor call does: the instructions it appends, the terminators  *)
(* it passes to ir.SetTerm, its return value, and whether it ran into      *)
(* ASSERT_MSG(false, ...).                                                 *)
(***************************************************************************)
Visited(e, terms, ret, asserted) ==
    [insts |-> e, terms |-> terms, ret |-> ret, asserted |-> asserted]

Continue(e) == Visited(e, <<>>, TRUE, FALSE)

\* A variant that names the location after a 16-bit instruction.
InterpretNextInstruction ==
    Visited(<<>>, <<Interpret(Plus(current_location, 2))>>, FALSE, FALSE)

InterpretThisInstruction == Visited(<<>>, <<Interpret(current_location)>>, FALSE, FALSE)

UnpredictableInstruction == Visited(<<>>, <<>>, FALSE, TRUE)

\* The tail shared by the flag-setting shift visitors (result and carry of a Shift).
ShiftTail(e, d) ==
    LET res == Back(e, 1)
        carry == Back(e, 0)
    IN  Continue(SetCFlag(SetNZ(SetRegister(e, d, res), res), carry))

thumb16_LSL_imm(imm5, m, d) ==
    LET shift_n == imm5
        e1 == GetCFlag(<<>>)
        e2 == GetRegister(e1, m)
    IN  ShiftTail(Shift(e2, "LogicalShiftLeft", Back(e2, 0), Imm8(shift_n), Back(e1, 0)), d)

\* A variant that passes imm5 unchanged, as LSL does.
thumb16_LSR_imm_unchanged(imm5, m, d) ==
    LET shift_n == imm5
        e1 == GetCFlag(<<>>)
        e2 == GetRegister(e1, m)
    IN  ShiftTail(Shift(e2, "LogicalShiftRight", Back(e2, 0), Imm8(shift_n), Back(e1, 0)), d)

thumb16_LSR_imm(imm5, m, d) ==
    LET shift_n == IF imm5 # 0 THEN imm5 ELSE 32
        e1 == GetCFlag(<<>>)
        e2 == GetRegister(e1, m)
    IN  ShiftTail(Shift(e2, "LogicalShiftRight", Back(e2, 0), Imm8(shift_n), Back(e1, 0)), d)

thumb16_ASR_imm(imm5, m, d) ==
    LET shift_n == IF imm5 # 0 THEN imm5 ELSE 32
        e1 == GetCFlag(<<>>)
        e2 == GetRegister(e1, m)
    IN  ShiftTail(Shift(e2, "ArithmeticShiftRight", Back(e2, 0), Imm8(shift_n), Back(e1, 0)), d)

\* A variant that writes the result to register d also for the compare visitors.
CarryTailAlwaysWrites(e, write_d, d) ==
    LET res == Back(e, 2)
        carry == Back(e, 1)
        overflow == Back(e, 0)
        e1 == SetRegister(e, d, res)
    IN  Continue(SetVFlag(SetCFlag(SetNZ(e1, res), carry), overflow))

\* The tail shared by the visitors that set N, Z, C and V from a WithCarry result;
\* write_d: the visitor also writes the result to register d.
CarryTail(e, write_d, d) ==
    LET res == Back(e, 2)
        carry == Back(e, 1)
        overflow == Back(e, 0)
        e1 == IF write_d THEN SetRegister(e, d, res) ELSE e
    IN  Continue(SetVFlag(SetCFlag(SetNZ(e1, res), carry), overflow))

thumb16_ADD_reg_t1(m, n, d) ==
    LET e1 == GetRegisters(<<>>, n, m)
    IN  CarryTail(WithCarry(e1, "AddWithCarry", FirstArg(e1), SecondArg(e1), Imm1(0)), TRUE, d)

thumb16_SUB_reg(m, n, d) ==
    LET e1 == GetRegisters(<<>>, n, m)
    IN  CarryTail(WithCarry(e1, "SubWithCarry", FirstArg(e1), SecondArg(e1), Imm1(1)), TRUE, d)

thumb16_ADD_imm_t1(imm3, n, d) ==
    LET imm32 == U32(0, imm3 % 8)
        e1 == GetRegister(<<>>, n)
    IN  CarryTail(WithCarry(e1, "AddWithCarry", Back(e1, 0), Imm32(imm32), Imm1(0)), TRUE, d)

thumb16_SUB_imm_t1(imm3, n, d) ==
    LET imm32 == U32(0, imm3 % 8)
        e1 == GetRegister(<<>>, n)
    IN  CarryTail(WithCarry(e1, "SubWithCarry", Back(e1, 0), Imm32(imm32), Imm1(1)), TRUE, d)

\* A variant that ends the block after the instruction.
thumb16_MOV_imm_stops(d, imm8) ==
    LET imm32 == U32(0, imm8 % 256)
        result == Imm32(imm32)
    IN  Visited(SetNZ(SetRegister(<<>>, d, result), result),
                <<Interpret(Plus(current_location, 2))>>, FALSE, FALSE)

thumb16_MOV_imm(d, imm8) ==
    LET imm32 == U32(0, imm8 % 256)
        result == Imm32(imm32)
    IN  Continue(SetNZ(SetRegister(<<>>, d, result), result))

thumb16_CMP_imm(n, imm8) ==
    LET imm32 == U32(0, imm8 % 256)
        e1 == GetRegister(<<>>, n)
    IN  CarryTail(WithCarry(e1, "SubWithCarry", Back(e1, 0), Imm32(imm32), Imm1(1)), FALSE, n)

thumb16_ADD_imm_t2(d_n, imm8) ==
    LET imm32 == U32(0, imm8 % 256)
        e1 == GetRegister(<<>>, d_n)
    IN  CarryTail(WithCarry(e1, "AddWithCarry", Back(e1, 0), Imm32(imm32), Imm1(0)), TRUE, d_n)

thumb16_SUB_imm_t2(d_n, imm8) ==
    LET imm32 == U32(0, imm8 % 256)
        e1 == GetRegister(<<>>, d_n)
    IN  CarryTail(WithCarry(e1, "SubWithCarry", Back(e1, 0), Imm32(imm32), Imm1(1)), TRUE, d_n)

\* The tail shared by the logical visitors: write d (or not), then set N and Z.
LogicalTail(e, write_d, d) ==
    LET res == Back(e, 0)
        e1 == IF write_d THEN SetRegister(e, d, res) ELSE e
    IN  Continue(SetNZ(e1, res))

thumb16_AND_reg(m, d_n) ==
    LET e1 == GetRegisters(<<>>, d_n, m)
    IN  LogicalTail(Binary(e1, "And", FirstArg(e1), SecondArg(e1)), TRUE, d_n)

thumb16_EOR_reg(m, d_n) ==
    LET e1 == GetRegisters(<<>>, d_n, m)
    IN  LogicalTail(Binary(e1, "Eor", FirstArg(e1), SecondArg(e1)), TRUE, d_n)

\* The register-shift visitors: shift_n = LeastSignificantByte(GetRegister(m)),
\* the C flag, then op(GetRegister(n), shift_n, c).
ShiftReg(op, m, d_n) ==
    LET e1 == GetRegister(<<>>, m)
        e2 == Unary(e1, "LeastSignificantByte", Back(e1, 0))
        e3 == GetCFlag(e2)
        e4 == GetRegister(e3, d_n)
    IN  ShiftTail(Shift(e4, op, Back(e4, 0), Back(e2, 0), Back(e3, 0)), d_n)

thumb16_LSL_reg(m, d_n) == ShiftReg("LogicalShiftLeft", m, d_n)

thumb16_LSR_reg(m, d_n) == ShiftReg("LogicalShiftRight", m, d_n)

thumb16_ASR_reg(m, d_n) == ShiftReg("ArithmeticShiftRight", m, d_n)

thumb16_ADC_reg(m, d_n) ==
    LET e1 == GetCFlag(<<>>)
        e2 == GetRegisters(e1, d_n, m)
    IN  CarryTail(WithCarry(e2, "AddWithCarry", FirstArg(e2), SecondArg(e2), Back(e1, 0)), TRUE, d_n)

thumb16_SBC_reg(m, d_n) ==
    LET e1 == GetCFlag(<<>>)
        e2 == GetRegisters(e1, d_n, m)
    IN  CarryTail(WithCarry(e2, "SubWithCarry", FirstArg(e2), SecondArg(e2), Back(e1, 0)), TRUE, d_n)

thumb16_ROR_reg(m, d_n) == ShiftReg("RotateRight", m, d_n)

thumb16_TST_reg(m, n) ==
    LET e1 == GetRegisters(<<>>, n, m)
    IN  LogicalTail(Binary(e1, "And", FirstArg(e1), SecondArg(e1)), FALSE, n)

thumb16_RSB_imm(n, d) ==
    LET e1 == GetRegister(<<>>, n)
    IN  CarryTail(WithCarry(e1, "SubWithCarry", Imm32(Zero32), Back(e1, 0), Imm1(1)), TRUE, d)

thumb16_CMP_reg_t1(m, n) ==
    LET e1 == GetRegisters(<<>>, n, m)
    IN  CarryTail(WithCarry(e1, "SubWithCarry", FirstArg(e1), SecondArg(e1), Imm1(1)), FALSE, n)

thumb16_CMN_reg(m, n) ==
    LET e1 == GetRegisters(<<>>, n, m)
    IN  CarryTail(WithCarry(e1, "AddWithCarry", FirstArg(e1), SecondArg(e1), Imm1(0)), FALSE, n)

thumb16_ORR_reg(m, d_n) ==
    LET e1 == GetRegisters(<<>>, m, d_n)
    IN  LogicalTail(Binary(e1, "Or", FirstArg(e1), SecondArg(e1)), TRUE, d_n)

\* ir.And(ir.GetRegister(n), ir.Not(ir.GetRegister(m)))
thumb16_BIC_reg(m, d_n) ==
    LET l1 == GetRegister(<<>>, d_n)
        l2 == GetRegister(l1, m)
        l3 == Unary(l2, "Not", Back(l2, 0))
        r1 == GetRegister(<<>>, m)
        r2 == Unary(r1, "Not", Back(r1, 0))
        r3 == GetRegister(r2, d_n)
    IN  IF ltr THEN LogicalTail(Binary(l3, "And", Back(l1, 0), Back(l3, 0)), TRUE, d_n)
        ELSE LogicalTail(Binary(r3, "And", Back(r3, 0), Back(r2, 0)), TRUE, d_n)

thumb16_MVN_reg(m, d) ==
    LET e1 == GetRegister(<<>>, m)
    IN  LogicalTail(Unary(e1, "Not", Back(e1, 0)), TRUE, d)

thumb16_ADD_reg_t2(d_n_hi, m, d_n_lo) ==
    LET d_n == IF d_n_hi THEN d_n_lo + 8 ELSE d_n_lo
        e1 == GetRegisters(<<>>, d_n, m)
        e2 == WithCarry(e1, "AddWithCarry", FirstArg(e1), SecondArg(e1), Imm1(0))
    IN  IF d_n = PC /\ m = PC THEN UnpredictableInstruction
        ELSE IF d_n = PC
             THEN Visited(ALUWritePC(e2, Back(e2, 2)), <<ReturnToDispatch>>, FALSE, FALSE)
             ELSE Continue(SetRegister(e2, d_n, Back(e2, 2)))

thumb16_CMP_reg_t2(n_hi, m, n_lo) ==
    LET n == IF n_hi THEN n_lo + 8 ELSE n_lo
        e1 == GetRegisters(<<>>, n, m)
    IN  IF n < R8 /\ m < R8 THEN UnpredictableInstruction
        ELSE IF n = PC \/ m = PC THEN UnpredictableInstruction
        ELSE CarryTail(WithCarry(e1, "SubWithCarry", FirstArg(e1), SecondArg(e1), Imm1(1)),
                       FALSE, n)

\* A variant that sets N and Z as MOVS does.
thumb16_MOV_reg_flags(d_hi, m, d_lo) ==
    LET d == IF d_hi THEN d_lo + 8 ELSE d_lo
        e1 == GetRegister(<<>>, m)
    IN  IF d = PC
        THEN Visited(ALUWritePC(e1, Back(e1, 0)), <<ReturnToDispatch>>, FALSE, FALSE)
        ELSE Continue(SetNZ(SetRegister(e1, d, Back(e1, 0)), Back(e1, 0)))

\* A variant that writes every destination, the PC included, with SetRegister.
thumb16_MOV_reg_plain(d_hi, m, d_lo) ==
    LET d == IF d_hi THEN d_lo + 8 ELSE d_lo
        e1 == GetRegister(<<>>, m)
    IN  Continue(SetRegister(e1, d, Back(e1, 0)))

thumb16_MOV_reg(d_hi, m, d_lo) ==
    LET d == IF d_hi THEN d_lo + 8 ELSE d_lo
        e1 == GetRegister(<<>>, m)
    IN  IF d = PC
        THEN Visited(ALUWritePC(e1, Back(e1, 0)), <<ReturnToDispatch>>, FALSE, FALSE)
        ELSE Continue(SetRegister(e1, d, Back(e1, 0)))

\* A variant that does not align the PC.
thumb16_LDR_literal_unaligned(t, imm8) ==
    LET imm32 == U32(0, imm8 * 4)
        address == Add32(Add32(current_location, U32(0, 4)), imm32)
        e1 == ReadMemory32(<<>>, Imm32(address))
    IN  Continue(SetRegister(e1, t, Back(e1, 0)))

thumb16_LDR_literal(t, imm8) ==
    LET imm32 == U32(0, imm8 * 4)
        address == Add32(AlignPC4, imm32)
        e1 == ReadMemory32(<<>>, Imm32(address))
    IN  Continue(SetRegister(e1, t, Back(e1, 0)))

thumb16_STR_reg(m, n, t) ==
    LET e1 == GetRegisters(<<>>, n, m)
        e2 == Add(e1, FirstArg(e1), SecondArg(e1))
        e3 == GetRegister(e2, t)
    IN  Continue(WriteMemory32(e3, Back(e2, 0), Back(e3, 0)))

thumb16_STRH_reg(m, n, t) ==
    LET e1 == GetRegisters(<<>>, n, m)
        e2 == Add(e1, FirstArg(e1), SecondArg(e1))
        e3 == GetRegister(e2, t)
        e4 == Unary(e3, "LeastSignificantHalf", Back(e3, 0))
    IN  Continue(WriteMemory16(e4, Back(e2, 0), Back(e4, 0)))

thumb16_STRB_reg(m, n, t) ==
    LET e1 == GetRegisters(<<>>, n, m)
        e2 == Add(e1, FirstArg(e1), SecondArg(e1))
        e3 == GetRegister(e2, t)
        e4 == Unary(e3, "LeastSignificantByte", Back(e3, 0))
    IN  Continue(WriteMemory8(e4, Back(e2, 0), Back(e4, 0)))

thumb16_LDR_imm_t1(imm5, n, t) ==
    LET imm32 == U32(0, imm5 * 4)
        e1 == GetRegister(<<>>, n)
        e2 == Add(e1, Back(e1, 0), Imm32(imm32))
        e3 == ReadMemory32(e2, Back(e2, 0))
    IN  Continue(SetRegister(e3, t, Back(e3, 0)))

thumb16_ADR(d, imm8) ==
    LET imm32 == U32(0, imm8 * 4)
        result == Imm32(Add32(AlignPC4, imm32))
    IN  Continue(SetRegister(<<>>, d, result))

thumb16_ADD_sp_t1(d, imm8) ==
    LET imm32 == U32(0, imm8 * 4)
        e1 == GetRegister(<<>>, SP)
        e2 == WithCarry(e1, "AddWithCarry", Back(e1, 0), Imm32(imm32), Imm1(0))
    IN  Continue(SetRegister(e2, d, Back(e2, 2)))

thumb16_ADD_sp_t2(imm7) ==
    LET imm32 == U32(0, imm7 * 4)
        d == SP
        e1 == GetRegister(<<>>, SP)
        e2 == WithCarry(e1, "AddWithCarry", Back(e1, 0), Imm32(imm32), Imm1(0))
    IN  Continue(SetRegister(e2, d, Back(e2, 2)))

thumb16_SUB_sp(imm7) ==
    LET imm32 == U32(0, imm7 * 4)
        d == SP
        e1 == GetRegister(<<>>, SP)
        e2 == WithCarry(e1, "SubWithCarry", Back(e1, 0), Imm32(imm32), Imm1(1))
    IN  Continue(SetRegister(e2, d, Back(e2, 2)))

\* SetRegister(d, outer(inner(GetRegister(m))))
Extend(inner, outer, m, d) ==
    LET e1 == GetRegister(<<>>, m)
        e2 == Unary(e1, inner, Back(e1, 0))
        e3 == Unary(e2, outer, Back(e2, 0))
    IN  Continue(SetRegister(e3, d, Back(e3, 0)))

thumb16_SXTH(m, d) == Extend("LeastSignificantHalf", "SignExtendHalfToWord", m, d)

thumb16_SXTB(m, d) == Extend("LeastSignificantByte", "SignExtendByteToWord", m, d)

thumb16_UXTH(m, d) == Extend("LeastSignificantHalf", "ZeroExtendHalfToWord", m, d)

thumb16_UXTB(m, d) == Extend("LeastSignificantByte", "ZeroExtendByteToWord", m, d)

thumb16_REV(m, d) ==
    LET e1 == GetRegister(<<>>, m)
        e2 == Unary(e1, "ByteReverseWord", Back(e1, 0))
    IN  Continue(SetRegister(e2, d, Back(e2, 0)))

thumb16_REV16(m, d) ==
    LET e1 == GetRegister(<<>>, m)
        Rm == Back(e1, 0)
        e2 == Shift(e1, "LogicalShiftRight", Rm, Imm8(16), Imm1(0))
        e3 == Unary(e2, "LeastSignificantHalf", Back(e2, 1))
        upper_half == Back(e3, 0)
        e4 == Unary(e3, "LeastSignificantHalf", Rm)
        lower_half == Back(e4, 0)
        e5 == Unary(e4, "ByteReverseHalf", upper_half)
        e6 == Unary(e5, "ZeroExtendHalfToWord", Back(e5, 0))
        rev_upper_half == Back(e6, 0)
        e7 == Unary(e6, "ByteReverseHalf", lower_half)
        e8 == Unary(e7, "ZeroExtendHalfToWord", Back(e7, 0))
        rev_lower_half == Back(e8, 0)
        e9 == Shift(e8, "LogicalShiftLeft", rev_upper_half, Imm8(16), Imm1(0))
        e10 == Binary(e9, "Or", Back(e9, 1), rev_lower_half)
    IN  Continue(SetRegister(e10, d, Back(e10, 0)))

thumb16_REVSH(m, d) ==
    LET e1 == GetRegister(<<>>, m)
        e2 == Unary(e1, "LeastSignificantHalf", Back(e1, 0))
        e3 == Unary(e2, "ByteReverseHalf", Back(e2, 0))
        e4 == Unary(e3, "SignExtendHalfToWord", Back(e3, 0))
    IN  Continue(SetRegister(e4, d, Back(e4, 0)))

thumb16_UDF == InterpretThisInstruction

thumb16_SVC(imm8) ==
    LET imm32 == U32(0, imm8)
    IN  Visited(CallSupervisor(<<>>, Imm32(imm32)), <<>>, FALSE, FALSE)

(***************************************************************************)
(* The Thumb16 decoder: an ordered table of (mask, value, handler); a word *)
(* matches an entry iff (word & mask) = value, and the first match wins.   *)
(***************************************************************************)
Entry(name, mask, value) == [name |-> name, mask |-> mask, value |-> value]

Thumb16Table == <<
    Entry("thumb16_LSL_imm",     \hF800, \h0000),
    Entry("thumb16_LSR_imm",     \hF800, \h0800),
    Entry("thumb16_ASR_imm",     \hF800, \h1000),
    Entry("thumb16_ADD_reg_t1",  \hFE00, \h1800),
    Entry("thumb16_SUB_reg",     \hFE00, \h1A00),
    Entry("thumb16_ADD_imm_t1",  \hFE00, \h1C00),
    Entry("thumb16_SUB_imm_t1",  \hFE00, \h1E00),
    Entry("thumb16_MOV_imm",     \hF800, \h2000),
    Entry("thumb16_CMP_imm",     \hF800, \h2800),
    Entry("thumb16_ADD_imm_t2",  \hF800, \h3000),
    Entry("thumb16_SUB_imm_t2",  \hF800, \h3800),
    Entry("thumb16_AND_reg",     \hFFC0, \h4000),
    Entry("thumb16_EOR_reg",     \hFFC0, \h4040),
    Entry("thumb16_LSL_reg",     \hFFC0, \h4080),
    Entry("thumb16_LSR_reg",     \hFFC0, \h40C0),
    Entry("thumb16_ASR_reg",     \hFFC0, \h4100),
    Entry("thumb16_ADC_reg",     \hFFC0, \h4140),
    Entry("thumb16_SBC_reg",     \hFFC0, \h4180),
    Entry("thumb16_ROR_reg",     \hFFC0, \h41C0),
    Entry("thumb16_TST_reg",     \hFFC0, \h4200),
    Entry("thumb16_RSB_imm",     \hFFC0, \h4240),
    Entry("thumb16_CMP_reg_t1",  \hFFC0, \h4280),
    Entry("thumb16_CMN_reg",     \hFFC0, \h42C0),
    Entry("thumb16_ORR_reg",     \hFFC0, \h4300),
    Entry("thumb16_BIC_reg",     \hFFC0, \h4380),
    Entry("thumb16_MVN_reg",     \hFFC0, \h43C0),
    Entry("thumb16_ADD_reg_t2",  \hFF00, \h4400),
    Entry("thumb16_CMP_reg_t2",  \hFF00, \h4500),
    Entry("thumb16_MOV_reg",     \hFF00, \h4600),
    Entry("thumb16_LDR_literal", \hF800, \h4800),
    Entry("thumb16_STR_reg",     \hFE00, \h5000),
    Entry("thumb16_STRH_reg",    \hFE00, \h5200),
    Entry("thumb16_STRB_reg",    \hFE00, \h5400),
    Entry("thumb16_LDR_imm_t1",  \hF800, \h6800),
    Entry("thumb16_ADR",         \hF800, \hA000),
    Entry("thumb16_ADD_sp_t1",   \hF800, \hA800),
    Entry("thumb16_ADD_sp_t2",   \hFF80, \hB000),
    Entry("thumb16_SUB_sp",      \hFF80, \hB080),
    Entry("thumb16_SXTH",        \hFFC0, \hB200),
    Entry("thumb16_SXTB",        \hFFC0, \hB240),
    Entry("thumb16_UXTH",        \hFFC0, \hB280),
    Entry("thumb16_UXTB",        \hFFC0, \hB2C0),
    Entry("thumb16_REV",         \hFFC0, \hBA00),
    Entry("thumb16_REV16",       \hFFC0, \hBA40),
    Entry("thumb16_REVSH",       \hFFC0, \hBAC0),
    Entry("thumb16_UDF",         \hFF00, \hDE00),
    Entry("thumb16_SVC",         \hFF00, \hDF00) >>

Matches(h, k) == BitAnd16(h, Thumb16Table[k].mask) = Thumb16Table[k].value

\* The name of the first entry from index k on that the word h matches, "" when
\* there is none.
RECURSIVE DecodeFrom(_, _)
DecodeFrom(h, k) ==
    IF k > Len(Thumb16Table) THEN ""
    ELSE IF Matches(h, k) THEN Thumb16Table[k].name
    ELSE DecodeFrom(h, k + 1)

DecodeThumb16(h) == DecodeFrom(h, 1)

\* decoder->call(visitor, h): extract the entry's bit fields and call its visitor.
Call(name, h) ==
    CASE name = "thumb16_LSL_imm"     -> thumb16_LSL_imm(Bits(h, 10, 6), Bits(h, 5, 3), Bits(h, 2, 0))
      [] name = "thumb16_LSR_imm"     -> thumb16_LSR_imm(Bits(h, 10, 6), Bits(h, 5, 3), Bits(h, 2, 0))
      [] name = "thumb16_ASR_imm"     -> thumb16_ASR_imm(Bits(h, 10, 6), Bits(h, 5, 3), Bits(h, 2, 0))
      [] name = "thumb16_ADD_reg_t1"  -> thumb16_ADD_reg_t1(Bits(h, 8, 6), Bits(h, 5, 3), Bits(h, 2, 0))
      [] name = "thumb16_SUB_reg"     -> thumb16_SUB_reg(Bits(h, 8, 6), Bits(h, 5, 3), Bits(h, 2, 0))
      [] name = "thumb16_ADD_imm_t1"  -> thumb16_ADD_imm_t1(Bits(h, 8, 6), Bits(h, 5, 3), Bits(h, 2, 0))
      [] name = "thumb16_SUB_imm_t1"  -> thumb16_SUB_imm_t1(Bits(h, 8, 6), Bits(h, 5, 3), Bits(h, 2, 0))
      [] name = "thumb16_MOV_imm"     -> thumb16_MOV_imm(Bits(h, 10, 8), Bits(h, 7, 0))
      [] name = "thumb16_CMP_imm"     -> thumb16_CMP_imm(Bits(h, 10, 8), Bits(h, 7, 0))
      [] name = "thumb16_ADD_imm_t2"  -> thumb16_ADD_imm_t2(Bits(h, 10, 8), Bits(h, 7, 0))
      [] name = "thumb16_SUB_imm_t2"  -> thumb16_SUB_imm_t2(Bits(h, 10, 8), Bits(h, 7, 0))
      [] name = "thumb16_AND_reg"     -> thumb16_AND_reg(Bits(h, 5, 3), Bits(h, 2, 0))
      [] name = "thumb16_EOR_reg"     -> thumb16_EOR_reg(Bits(h, 5, 3), Bits(h, 2, 0))
      [] name = "thumb16_LSL_reg"     -> thumb16_LSL_reg(Bits(h, 5, 3), Bits(h, 2, 0))
      [] name = "thumb16_LSR_reg"     -> thumb16_LSR_reg(Bits(h, 5, 3), Bits(h, 2, 0))
      [] name = "thumb16_ASR_reg"     -> thumb16_ASR_reg(Bits(h, 5, 3), Bits(h, 2, 0))
      [] name = "thumb16_ADC_reg"     -> thumb16_ADC_reg(Bits(h, 5, 3), Bits(h, 2, 0))
      [] name = "thumb16_SBC_reg"     -> thumb16_SBC_reg(Bits(h, 5, 3), Bits(h, 2, 0))
      [] name = "thumb16_ROR_reg"     -> thumb16_ROR_reg(Bits(h, 5, 3), Bits(h, 2, 0))
      [] name = "thumb16_TST_reg"     -> thumb16_TST_reg(Bits(h, 5, 3), Bits(h, 2, 0))
      [] name = "thumb16_RSB_imm"     -> thumb16_RSB_imm(Bits(h, 5, 3), Bits(h, 2, 0))
      [] name = "thumb16_CMP_reg_t1"  -> thumb16_CMP_reg_t1(Bits(h, 5, 3), Bits(h, 2, 0))
      [] name = "thumb16_CMN_reg"     -> thumb16_CMN_reg(Bits(h, 5, 3), Bits(h, 2, 0))
      [] name = "thumb16_ORR_reg"     -> thumb16_ORR_reg(Bits(h, 5, 3), Bits(h, 2, 0))
      [] name = "thumb16_BIC_reg"     -> thumb16_BIC_reg(Bits(h, 5, 3), Bits(h, 2, 0))
      [] name = "thumb16_MVN_reg"     -> thumb16_MVN_reg(Bits(h, 5, 3), Bits(h, 2, 0))
      [] name = "thumb16_ADD_reg_t2"  -> thumb16_ADD_reg_t2(Bits(h, 7, 7) = 1, Bits(h, 6, 3), Bits(h, 2, 0))
      [] name = "thumb16_CMP_reg_t2"  -> thumb16_CMP_reg_t2(Bits(h, 7, 7) = 1, Bits(h, 6, 3), Bits(h, 2, 0))
      [] name = "thumb16_MOV_reg"     -> thumb16_MOV_reg(Bits(h, 7, 7) = 1, Bits(h, 6, 3), Bits(h, 2, 0))
      [] name = "thumb16_LDR_literal" -> thumb16_LDR_literal(Bits(h, 10, 8), Bits(h, 7, 0))
      [] name = "thumb16_STR_reg"     -> thumb16_STR_reg(Bits(h, 8, 6), Bits(h, 5, 3), Bits(h, 2, 0))
      [] name = "thumb16_STRH_reg"    -> thumb16_STRH_reg(Bits(h, 8, 6), Bits(h, 5, 3), Bits(h, 2, 0))
      [] name = "thumb16_STRB_reg"    -> thumb16_STRB_reg(Bits(h, 8, 6), Bits(h, 5, 3), Bits(h, 2, 0))
      [] name = "thumb16_LDR_imm_t1"  -> thumb16_LDR_imm_t1(Bits(h, 10, 6), Bits(h, 5, 3), Bits(h, 2, 0))
      [] name = "thumb16_ADR"         -> thumb16_ADR(Bits(h, 10, 8), Bits(h, 7, 0))
      [] name = "thumb16_ADD_sp_t1"   -> thumb16_ADD_sp_t1(Bits(h, 10, 8), Bits(h, 7, 0))
      [] name = "thumb16_ADD_sp_t2"   -> thumb16_ADD_sp_t2(Bits(h, 6, 0))
      [] name = "thumb16_SUB_sp"      -> thumb16_SUB_sp(Bits(h, 6, 0))
      [] name = "thumb16_SXTH"        -> thumb16_SXTH(Bits(h, 5, 3), Bits(h, 2, 0))
      [] name = "thumb16_SXTB"        -> thumb16_SXTB(Bits(h, 5, 3), Bits(h, 2, 0))
      [] name = "thumb16_UXTH"        -> thumb16_UXTH(Bits(h, 5, 3), Bits(h, 2, 0))
      [] name = "thumb16_UXTB"        -> thumb16_UXTB(Bits(h, 5, 3), Bits(h, 2, 0))
      [] name = "thumb16_REV"         -> thumb16_REV(Bits(h, 5, 3), Bits(h, 2, 0))
      [] name = "thumb16_REV16"       -> thumb16_REV16(Bits(h, 5, 3), Bits(h, 2, 0))
      [] name = "thumb16_REVSH"       -> thumb16_REVSH(Bits(h, 5, 3), Bits(h, 2, 0))
      [] name = "thumb16_UDF"         -> thumb16_UDF
      [] name = "thumb16_SVC"         -> thumb16_SVC(Bits(h, 7, 0))

(***************************************************************************)
(* ReadThumbInstruction: the instruction word, its size and the addresses  *)
(* given to memory_read_32.                                                *)
(***************************************************************************)
\* A variant that never shifts: always the low half of the word.
HalfwordAtLow(arm_pc) ==
    LET word == MemoryRead32(AlignDown4(arm_pc))
    IN  word.lo

\* memory_read_32(arm_pc & 0xFFFFFFFC), shifted by 16 when (arm_pc & 2) != 0, & 0xFFFF
HalfwordAt(arm_pc) ==
    LET word == MemoryRead32(AlignDown4(arm_pc))
    IN  IF Bit1Set(arm_pc) THEN word.hi ELSE word.lo

\* (first_part & 0xF800) <= 0xE800
IsThumb16(first_part) == BitAnd16(first_part, \hF800) <= \hE800

ReadThumbInstruction(arm_pc) ==
    LET first_part == HalfwordAt(arm_pc)
        second_part == HalfwordAt(Plus(arm_pc, 2))
    IN  IF IsThumb16(first_part)
        THEN [inst |-> U32(0, first_part), size |-> "Thumb16",
              reads |-> <<AlignDown4(arm_pc)>>]
        ELSE [inst |-> U32(first_part, second_part), size |-> "Thumb32",
              reads |-> <<AlignDown4(arm_pc), AlignDown4(Plus(arm_pc, 2))>>]

(***************************************************************************)
(* TranslateThumb.                                                         *)
(***************************************************************************)
\* The handler the loop body picks for the fetched instruction r: the decoder's
\* entry, thumb16_UDF when no entry matches, InterpretThisInstruction for Thumb-32.
Handler(r) ==
    IF r.size = "Thumb16"
    THEN LET decoder == DecodeThumb16(r.inst.lo)
         IN  IF decoder # "" THEN decoder ELSE "thumb16_UDF"
    ELSE "InterpretThisInstruction"

\* What the visitor does for the fetched instruction r, given its handler.
Visit(r, handler) ==
    IF handler = "InterpretThisInstruction" THEN InterpretThisInstruction
    ELSE Call(handler, r.inst.lo)

\* ir.SetTerm for each terminator of the sequence terms, in order.
SetTerm(old, terms) == IF terms = <<>> THEN old ELSE terms[Len(terms)]

\* One record of the history: the guest instruction at arm_pc and what the
\* visitor did for it (the instructions from + 1 .. to of the block are its emission).
VisitRecord(r, handler, v) ==
    [arm_pc |-> current_location, inst |-> r.inst, size |-> r.size,
     handler |-> handler, from |-> Len(block), to |-> Len(block) + Len(v.insts),
     insts |-> v.insts, terms |-> v.terms, ret |-> v.ret, asserted |-> v.asserted,
     reads |-> r.reads]

\* A loop body that leaves the loop after every instruction.
TranslateVisitOnce ==
    /\ pc = "fetch"
    /\ should_continue
    /\ LET r == ReadThumbInstruction(current_location)
           handler == Handler(r)
           v == Visit(r, handler)
       IN  /\ block' = block \o v.insts
           /\ term' = SetTerm(term, v.terms)
           /\ set_term_calls' = set_term_calls + Len(v.terms)
           /\ should_continue' = FALSE
           /\ inst_size' = r.size
           /\ visited' = Append(visited, VisitRecord(r, handler, v))
           /\ mem_reads' = mem_reads \o r.reads
    /\ pc' = "advance"
    /\ UNCHANGED << mem, fill, read_only, ltr, descriptor, current_location, cycle_count,
                    cb_log, pass_runs, prev_block, x64 >>

\* Lines 585-606: fetch, decode and visit one instruction.  When the visitor runs
\* into ASSERT_MSG(false, ...), this is the build in which the assertion does nothing.
TranslateVisit ==
    /\ pc = "fetch"
    /\ should_continue
    /\ LET r == ReadThumbInstruction(current_location)
           handler == Handler(r)
           v == Visit(r, handler)
       IN  /\ block' = block \o v.insts
           /\ term' = SetTerm(term, v.terms)
           /\ set_term_calls' = set_term_calls + Len(v.terms)
           /\ should_continue' = v.ret
           /\ inst_size' = r.size
           /\ visited' = Append(visited, VisitRecord(r, handler, v))
           /\ mem_reads' = mem_reads \o r.reads
    /\ pc' = "advance"
    /\ UNCHANGED << mem, fill, read_only, ltr, descriptor, current_location, cycle_count,
                    cb_log, pass_runs, prev_block, x64 >>

\* ASSERT_MSG(false, "UNPREDICTABLE") in a build in which assertions abort: the
\* process ends inside the visitor and TranslateThumb never returns.
AssertionFailure ==
    /\ pc = "fetch"
    /\ should_continue
    /\ LET r == ReadThumbInstruction(current_location)
           handler == Handler(r)
           v == Visit(r, handler)
       IN  /\ v.asserted
           /\ inst_size' = r.size
           /\ visited' = Append(visited, VisitRecord(r, handler, v))
           /\ mem_reads' = mem_reads \o r.reads
    /\ pc' = "aborted"
    /\ UNCHANGED << mem, fill, read_only, ltr, descriptor, current_location, block, term,
                    cycle_count, should_continue, set_term_calls, cb_log, pass_runs,
                    prev_block, x64 >>

\* A variant that counts a 32-bit instruction as two cycles.
TranslateAdvanceBySize ==
    /\ pc = "advance"
    /\ current_location' = Plus(current_location, IF inst_size = "Thumb16" THEN 2 ELSE 4)
    /\ cycle_count' = cycle_count + (IF inst_size = "Thumb16" THEN 1 ELSE 2)
    /\ pc' = IF should_continue THEN "fetch" ELSE "done"
    /\ UNCHANGED << mem, fill, read_only, ltr, descriptor, block, term, should_continue,
                    inst_size, visited, set_term_calls, mem_reads, cb_log, pass_runs,
                    prev_block, x64 >>

\* Lines 608-610: advance the location, count the cycle, test the loop condition
\* and return the block when it is false.
TranslateAdvance ==
    /\ pc = "advance"
    /\ current_location' = Plus(current_location, IF inst_size = "Thumb16" THEN 2 ELSE 4)
    /\ cycle_count' = cycle_count + 1
    /\ pc' = IF should_continue THEN "fetch" ELSE "done"
    /\ UNCHANGED << mem, fill, read_only, ltr, descriptor, block, term, should_continue,
                    inst_size, visited, set_term_calls, mem_reads, cb_log, pass_runs,
                    prev_block, x64 >>

(***************************************************************************)
(* IR::Inst::Invalidate and IR::Inst::ReplaceUsesWith.                     *)
(***************************************************************************)
\* The instruction stays in the list as a no-op and uses its operands no more.
Invalidate(blk, i) == [blk EXCEPT ![i] = Inst("Void", <<>>)]

\* Every operand that refers to instruction i becomes the value val.
ReplaceUsesWith(blk, i, val) ==
    [j \in 1..Len(blk) |->
        Inst(blk[j].op,
             [k \in 1..Len(blk[j].args) |->
                 IF blk[j].args[k] = Ref(i) THEN val ELSE blk[j].args[k]])]

\* The number of operands in the block that refer to instruction i.
UseCount(blk, i) ==
    Cardinality({jk \in (1..Len(blk)) \X (1..4) :
                    /\ jk[2] <= Len(blk[jk[1]].args)
                    /\ blk[jk[1]].args[jk[2]] = Ref(i)})

(***************************************************************************)
(* A32ConstantMemoryReads.  Each case of the switch gives the block after  *)
(* the case and the callbacks it made.                                     *)
(***************************************************************************)
Stepped(blk, log) == [block |-> blk, log |-> log]

Called(fn, vaddr) == [fn |-> fn, vaddr |-> vaddr]

\* A variant that does not look at the opcode that defines the operand.
SetCFlagCaseAnyOperand(blk, i) ==
    LET arg == blk[i].args[1]
    IN  IF ~IsImmediate(arg)
        THEN Stepped(Invalidate(blk, i), <<>>)
        ELSE Stepped(blk, <<>>)

\* case IR::Opcode::A32SetCFlag
SetCFlagCase(blk, i) ==
    LET arg == blk[i].args[1]
    IN  IF ~IsImmediate(arg) /\ blk[arg.ref].op = "A32GetCFlag"
        THEN Stepped(Invalidate(blk, i), <<>>)
        ELSE Stepped(blk, <<>>)

\* A variant that reads through the callback without asking IsReadOnlyMemory.
ReadMemoryCaseUnchecked(blk, i, fn, value) ==
    LET vaddr == blk[i].args[1].v
    IN  IF ~AreAllArgsImmediates(blk[i])
        THEN Stepped(blk, <<>>)
        ELSE Stepped(ReplaceUsesWith(blk, i, value), <<Called(fn, vaddr)>>)

\* The shape shared by the four ReadMemory cases: fn is the MemoryReadN callback
\* and value the IR::Value made of what it returns.
ReadMemoryCase(blk, i, fn, value) ==
    LET vaddr == blk[i].args[1].v
    IN  IF ~AreAllArgsImmediates(blk[i])
        THEN Stepped(blk, <<>>)
        ELSE IF IsReadOnlyMemory(vaddr)
             THEN Stepped(ReplaceUsesWith(blk, i, value),
                          <<Called("IsReadOnlyMemory", vaddr), Called(fn, vaddr)>>)
             ELSE Stepped(blk, <<Called("IsReadOnlyMemory", vaddr)>>)

\* case IR::Opcode::A32ReadMemory8
ReadMemory8Case(blk, i) ==
    ReadMemoryCase(blk, i, "MemoryRead8", Imm8(MemoryRead8(blk[i].args[1].v)))

\* case IR::Opcode::A32ReadMemory16
ReadMemory16Case(blk, i) ==
    ReadMemoryCase(blk, i, "MemoryRead16", Imm16(MemoryRead16(blk[i].args[1].v)))

\* case IR::Opcode::A32ReadMemory32
ReadMemory32Case(blk, i) ==
    ReadMemoryCase(blk, i, "MemoryRead32", Imm32(MemoryRead32(blk[i].args[1].v)))

\* case IR::Opcode::A32ReadMemory64
ReadMemory64Case(blk, i) ==
    ReadMemoryCase(blk, i, "MemoryRead64",
                   Imm64(MemoryRead64(blk[i].args[1].v).hi32, MemoryRead64(blk[i].args[1].v).lo32))

\* The body of the loop: the switch on the opcode of instruction i.
PassInst(blk, i) ==
    CASE blk[i].op = "A32SetCFlag"     -> SetCFlagCase(blk, i)
      [] blk[i].op = "A32ReadMemory8"  -> ReadMemory8Case(blk, i)
      [] blk[i].op = "A32ReadMemory16" -> ReadMemory16Case(blk, i)
      [] blk[i].op = "A32ReadMemory32" -> ReadMemory32Case(blk, i)
      [] blk[i].op = "A32ReadMemory64" -> ReadMemory64Case(blk, i)
      [] OTHER                         -> Stepped(blk, <<>>)

\* A variant that walks the block from its last instruction to its first.
RECURSIVE PassFromBack(_, _, _)
PassFromBack(blk, i, log) ==
    IF i > Len(blk) THEN Stepped(blk, log)
    ELSE LET s == PassInst(blk, Len(blk) + 1 - i)
         IN  PassFromBack(s.block, i + 1, log \o s.log)

\* for (auto& inst : block), from instruction i on.
RECURSIVE PassFrom(_, _, _)
PassFrom(blk, i, log) ==
    IF i > Len(blk) THEN Stepped(blk, log)
    ELSE LET s == PassInst(blk, i)
         IN  PassFrom(s.block, i + 1, log \o s.log)

\* One run of the pass on the block the translator returned.
A32ConstantMemoryReads ==
    /\ pc = "done"
    /\ pass_runs < MaxPassRuns
    /\ LET s == PassFrom(block, 1, <<>>)
       IN  /\ block' = s.block
           /\ cb_log' = s.log
    /\ prev_block' = block
    /\ pass_runs' = pass_runs + 1
    /\ UNCHANGED << mem, fill, read_only, ltr, descriptor, current_location, term,
                    cycle_count, should_continue, inst_size, pc, visited, set_term_calls,
                    mem_reads, x64 >>

\* The vector emitter has not been asked for anything.
NoX64 == [stage |-> "idle"]

(***************************************************************************)
(* The guest programs and callback answers the model draws from.           *)
(***************************************************************************)
\* All sequences over S of length at most n.
RECURSIVE SeqsUpTo(_, _)
SeqsUpTo(S, n) ==
    IF n = 0 THEN {<<>>}
    ELSE LET shorter == SeqsUpTo(S, n - 1)
         IN  shorter \cup {Append(q, x) : q \in shorter, x \in S}

StartPCs == {U32(0, \h1000), U32(0, \h1002), U32(\hFFFF, \hFFFC)}

\* Instructions that let translation continue, placed before the one under study:
\* MOVS R0, #0x42; LDR R1, [PC, #4].
PrefixPool == {\h2042, \h4901}

\* First halfwords under study: every Thumb16 handler, the unpredictable and the
\* PC-writing encodings, words no entry matches, and Thumb-32 prefixes.
HeadPool == {
    \h0000, \h0051, \h0811, \h0FD1, \h1011, \h1051,
    \h1888, \h1A88, \h1C88, \h1E88, \h2042, \h2905, \h3001, \h3801,
    \h4008, \h4048, \h4088, \h40C8, \h4108, \h4148, \h4188, \h41C8,
    \h4208, \h4248, \h4288, \h42C8, \h4308, \h4348, \h4388, \h43C8,
    \h4408, \h4488, \h448F, \h44FF, \h4478,
    \h4508, \h4588, \h458F, \h45F8, \h4548,
    \h4608, \h4688, \h468F, \h46FF,
    \h4800, \h4901, \h4AFF,
    \h5088, \h5288, \h5488, \h5688, \h6848,
    \hA001, \hA801, \hB001, \hB081,
    \hB208, \hB248, \hB288, \hB2C8, \hBA08, \hBA48, \hBAC8, \hBA88,
    \hDE00, \hDF00, \hDF42,
    \hE000, \hE7FF, \hE800, \hEFFF, \hF000, \hF7FF, \hF800, \hFFFF }

\* What the rest of guest memory holds.
Fills == {U32(\hDEAD, \hBEEF), U32(\h1234, \h5678)}

\* The answers of IsReadOnlyMemory: the sets of read-only addresses.
ReadOnlyChoices == {
    {},
    {U32(0, \h1008), U32(0, \h100C), U32(0, \h0004)} }

Init ==
    /\ \E start \in StartPCs, prefix \in SeqsUpTo(PrefixPool, MaxPrefix),
          head \in HeadPool, f \in Fills :
        /\ mem = BuildImage(start, Append(prefix, head), f)
        /\ fill = f
        /\ descriptor = start
        /\ current_location = start
    /\ read_only \in ReadOnlyChoices
    /\ ltr \in BOOLEAN
    /\ block = <<>>
    /\ term = NoTerm
    /\ cycle_count = 0
    /\ should_continue = TRUE
    /\ inst_size = "Thumb16"
    /\ pc = "fetch"
    /\ visited = <<>>
    /\ set_term_calls = 0
    /\ mem_reads = <<>>
    /\ cb_log = <<>>
    /\ pass_runs = 0
    /\ prev_block = <<>>
    /\ x64 = NoX64

Next ==
    \/ TranslateVisit
    \/ AssertionFailure
    \/ TranslateAdvance
    \/ A32ConstantMemoryReads

Spec == Init /\ [][Next]_vars

\* TranslateThumb alone, run to its end: the loop is sequential code, so the
\* body runs whenever control is at the fetch, and the increment and the test of
\* the loop condition whenever control is at them.
NextTranslate ==
    \/ TranslateVisit
    \/ AssertionFailure
    \/ TranslateAdvance

\* Control leaves the fetch: the body of the loop has run, to its end or into
\* the visitor's assertion.
BodyRun == pc = "fetch" /\ pc' \in {"advance", "aborted"}

SpecTranslate ==
    Init /\ [][NextTranslate]_vars /\ WF_pc(BodyRun) /\ WF_vars(TranslateAdvance)

(***************************************************************************)
(* The pass on IR blocks of any shape: every well-typed block of at most   *)
(* MaxBlockLen instructions over the opcodes below, in which every operand *)
(* is an immediate or the result of an earlier instruction.                *)
(***************************************************************************)
ReadMemoryOps == {"A32ReadMemory8", "A32ReadMemory16", "A32ReadMemory32", "A32ReadMemory64"}

\* The type of the value an opcode defines.
ResultType(op) ==
    CASE op \in {"A32GetNFlag", "A32GetZFlag", "A32GetCFlag", "A32GetVFlag",
                 "MostSignificantBit", "GetCarryFromOp", "GetOverflowFromOp"} -> "U1"
      [] op = "A32ReadMemory8" -> "U8"
      [] op = "A32ReadMemory16" -> "U16"
      [] op \in {"A32GetRegister", "A32ReadMemory32", "ZeroExtendByteToWord",
                 "ZeroExtendHalfToWord", "AddWithCarry"} -> "U32"
      [] op = "A32ReadMemory64" -> "U64"
      [] OTHER -> "Void"

\* The addresses the blocks read at as immediates (one of them unaligned).
PassAddrs == {U32(0, \h1008), U32(0, \h2001)}

Results(b, t) == {Ref(j) : j \in {i \in 1..Len(b) : ResultType(b[i].op) = t}}

\* The instructions that may follow the block b.
NextInsts(b) ==
    {Inst("A32GetCFlag", <<>>), Inst("A32GetRegister", <<RegRef(1)>>)}
    \cup {Inst("MostSignificantBit", <<x>>) : x \in Results(b, "U32")}
    \cup {Inst("A32SetCFlag", <<x>>) : x \in {Imm1(1)} \cup Results(b, "U1")}
    \cup {Inst(op, <<x>>) : op \in ReadMemoryOps,
                            x \in {Imm32(a) : a \in PassAddrs} \cup Results(b, "U32")}
    \cup {Inst("A32SetRegister", <<RegRef(0), x>>) : x \in Results(b, "U32")}
    \cup {Inst("ZeroExtendByteToWord", <<x>>) : x \in Results(b, "U8")}
    \cup {Inst("ZeroExtendHalfToWord", <<x>>) : x \in Results(b, "U16")}
    \cup {Inst("A32WriteMemory64", <<Imm32(U32(0, \h3000)), x>>) : x \in Results(b, "U64")}

RECURSIVE BlocksUpTo(_)
BlocksUpTo(n) ==
    IF n = 0 THEN {<<>>}
    ELSE LET shorter == BlocksUpTo(n - 1)
         IN  shorter \cup UNION {{Append(b, i) : i \in NextInsts(b)} : b \in shorter}

\* Guest memory holds the same word everywhere; with 0x00001008 a word read at
\* 0x1008 is itself the address 0x1008.
PassFills == {U32(\hDEAD, \hBEEF), U32(0, \h1008)}

InitPass ==
    /\ block \in BlocksUpTo(MaxBlockLen)
    /\ fill \in PassFills
    /\ mem = BuildImage(Zero32, <<>>, fill)
    /\ read_only \in SUBSET PassAddrs
    /\ ltr = TRUE
    /\ descriptor = Zero32
    /\ current_location = Zero32
    /\ term = ReturnToDispatch
    /\ cycle_count = 0
    /\ should_continue = FALSE
    /\ inst_size = "Thumb16"
    /\ pc = "done"
    /\ visited = <<>>
    /\ set_term_calls = 1
    /\ mem_reads = <<>>
    /\ cb_log = <<>>
    /\ pass_runs = 0
    /\ prev_block = <<>>
    /\ x64 = NoX64

NextPass == A32ConstantMemoryReads

SpecPass == InitPass /\ [][NextPass]_vars

(***************************************************************************)
(* The pass on blocks that get and set the four flags: every well-typed    *)
(* block of at most MaxBlockLen instructions over flag gets, flag sets of  *)
(* an immediate, of a flag or of the carry or overflow of an addition, and *)
(* one foldable read.                                                      *)
(***************************************************************************)
Flags == {"N", "Z", "C", "V"}

GetFlagOp(F) == "A32Get" \o F \o "Flag"
SetFlagOp(F) == "A32Set" \o F \o "Flag"

\* The instructions that may follow the block b.
NextFlagInsts(b) ==
    {Inst(GetFlagOp(F), <<>>) : F \in Flags}
    \cup {Inst(SetFlagOp(F), <<x>>) : F \in Flags, x \in {Imm1(1)} \cup Results(b, "U1")}
    \cup {Inst("AddWithCarry", <<Imm32(U32(0, 1)), Imm32(U32(0, 1)), Imm1(0)>>),
          Inst("A32ReadMemory32", <<Imm32(U32(0, \h1008))>>)}
    \cup {Inst(op, <<x>>) : op \in {"GetCarryFromOp", "GetOverflowFromOp"},
                            x \in {r \in Results(b, "U32") : b[r.ref].op = "AddWithCarry"}}
    \cup {Inst("A32SetRegister", <<RegRef(0), x>>) : x \in Results(b, "U32")}

RECURSIVE FlagBlocksUpTo(_)
FlagBlocksUpTo(n) ==
    IF n = 0 THEN {<<>>}
    ELSE LET shorter == FlagBlocksUpTo(n - 1)
         IN  shorter \cup UNION {{Append(b, i) : i \in NextFlagInsts(b)} : b \in shorter}

InitFlags ==
    /\ block \in FlagBlocksUpTo(MaxBlockLen)
    /\ fill = U32(\hDEAD, \hBEEF)
    /\ mem = BuildImage(Zero32, <<>>, fill)
    /\ read_only \in {{}, {U32(0, \h1008)}}
    /\ ltr = TRUE
    /\ descriptor = Zero32
    /\ current_location = Zero32
    /\ term = ReturnToDispatch
    /\ cycle_count = 0
    /\ should_continue = FALSE
    /\ inst_size = "Thumb16"
    /\ pc = "done"
    /\ visited = <<>>
    /\ set_term_calls = 1
    /\ mem_reads = <<>>
    /\ cb_log = <<>>
    /\ pass_runs = 0
    /\ prev_block = <<>>
    /\ x64 = NoX64

NextFlags == A32ConstantMemoryReads

SpecFlags == InitFlags /\ [][NextFlags]_vars

(***************************************************************************)
(* Vector floating point.  An XMM register is the sequence of its lanes,   *)
(* element 0 first; a lane of fsize bits is the sequence of its 16-bit     *)
(* words, the most significant first.                                      *)
(***************************************************************************)
\* x & y, x | y, x ^ y and ~x & y on 16-bit words.
RECURSIVE And16(_, _)
And16(x, y) ==
    IF x = 0 \/ y = 0 THEN 0
    ELSE (x % 2) * (y % 2) + 2 * And16(x \div 2, y \div 2)

Or16(x, y) == x + y - And16(x, y)
Xor16(x, y) == x + y - 2 * And16(x, y)
AndNot16(x, y) == And16(65535 - x, y)

\* A bitwise instruction on two registers.
Bitwise(Op(_, _), x, y) ==
    [i \in DOMAIN x |-> [j \in DOMAIN x[i] |-> Op(x[i][j], y[i][j])]]

andps(x, y) == Bitwise(And16, x, y)
orps(x, y) == Bitwise(Or16, x, y)
xorps(x, y) == Bitwise(Xor16, x, y)
\* andnps(x, y): x = ~x & y
andnps(x, y) == Bitwise(AndNot16, x, y)

\* A lane with every word w, and a register of such lanes.
LaneOf(fsize, w) == [j \in 1..(fsize \div 16) |-> w]
Broadcast(fsize, lane) == [i \in 1..(128 \div fsize) |-> lane]
ZeroLane(fsize) == LaneOf(fsize, 0)
OnesLane(fsize) == LaneOf(fsize, 65535)

\* The fields of a lane: biased exponent and whether the fraction is zero.
Exponent(fsize, lane) ==
    IF fsize = 32 THEN (lane[1] % 32768) \div 128 ELSE (lane[1] % 32768) \div 16

FractionIsZero(fsize, lane) ==
    /\ (IF fsize = 32 THEN lane[1] % 128 ELSE lane[1] % 16) = 0
    /\ \A j \in 2..Len(lane) : lane[j] = 0

\* FP::IsNaN, FP::IsSNaN, FP::IsQNaN
IsNaN(fsize, lane) ==
    /\ Exponent(fsize, lane) = (IF fsize = 32 THEN 255 ELSE 2047)
    /\ ~FractionIsZero(fsize, lane)

\* The most significant fraction bit, within the first word of a lane.
QuietBit(fsize) == IF fsize = 32 THEN 64 ELSE 8

IsQNaN(fsize, lane) == IsNaN(fsize, lane) /\ (lane[1] \div QuietBit(fsize)) % 2 = 1
IsSNaN(fsize, lane) == IsNaN(fsize, lane) /\ (lane[1] \div QuietBit(fsize)) % 2 = 0

Quieted(fsize, lane) == [lane EXCEPT ![1] = Or16(lane[1], QuietBit(fsize))]

\* FP::FPInfo<FPT>::DefaultNaN(): 0x7FC00000, 0x7FF8000000000000
DefaultNaN(fsize) ==
    [j \in 1..(fsize \div 16) |-> IF j = 1 THEN (IF fsize = 32 THEN 32704 ELSE 32760) ELSE 0]

\* FP::ProcessNaNs over the operands in order: the first signalling NaN, quieted;
\* else the first quiet NaN; else nothing.
ProcessNaNs(fsize, ops) ==
    LET snans == {n \in 1..Len(ops) : IsSNaN(fsize, ops[n])}
        qnans == {n \in 1..Len(ops) : IsQNaN(fsize, ops[n])}
        first(S) == CHOOSE n \in S : \A o \in S : n <= o
    IN  IF snans # {} THEN [has |-> TRUE, value |-> Quieted(fsize, ops[first(snans)])]
        ELSE IF qnans # {} THEN [has |-> TRUE, value |-> ops[first(qnans)]]
        ELSE [has |-> FALSE, value |-> ZeroLane(fsize)]

\* The order of two lanes that are not NaNs: x < y as floating-point numbers.
IsZeroLane(fsize, lane) == lane[1] % 32768 = 0 /\ \A j \in 2..Len(lane) : lane[j] = 0

RECURSIVE WordsLess(_, _, _)
WordsLess(x, y, j) ==
    IF j > Len(x) THEN FALSE
    ELSE IF x[j] # y[j] THEN x[j] < y[j]
    ELSE WordsLess(x, y, j + 1)

Magnitude(lane) == [lane EXCEPT ![1] = lane[1] % 32768]

FloatLess(fsize, x, y) ==
    LET xneg == x[1] >= 32768
        yneg == y[1] >= 32768
    IN  IF IsZeroLane(fsize, x) /\ IsZeroLane(fsize, y) THEN FALSE
        ELSE IF xneg /\ ~yneg THEN TRUE
        ELSE IF ~xneg /\ yneg THEN FALSE
        ELSE IF xneg THEN WordsLess(Magnitude(y), Magnitude(x), 1)
        ELSE WordsLess(Magnitude(x), Magnitude(y), 1)

\* x86 compares two lanes as equal: neither is a NaN and neither is less.
FloatEqual(fsize, x, y) ==
    /\ ~IsNaN(fsize, x) /\ ~IsNaN(fsize, y)
    /\ ~FloatLess(fsize, x, y) /\ ~FloatLess(fsize, y, x)

\* A per-lane comparison that writes all ones or all zeros to each lane.
Compare(fsize, Test(_, _, _), x, y) ==
    [i \in DOMAIN x |-> IF Test(fsize, x[i], y[i]) THEN OnesLane(fsize) ELSE ZeroLane(fsize)]

Unordered(fsize, x, y) == IsNaN(fsize, x) \/ IsNaN(fsize, y)
Ordered(fsize, x, y) == ~Unordered(fsize, x, y)
NotEqual(fsize, x, y) == ~FloatEqual(fsize, x, y)

cmpunordp(fsize, x, y) == Compare(fsize, Unordered, x, y)
cmpordp(fsize, x, y) == Compare(fsize, Ordered, x, y)
cmpneqp(fsize, x, y) == Compare(fsize, NotEqual, x, y)

\* A compare-equal that is also true for unordered lanes.
EqualOrUnordered(fsize, x, y) == Unordered(fsize, x, y) \/ FloatEqual(fsize, x, y)
vcmpeq_uqp(fsize, x, y) == Compare(fsize, EqualOrUnordered, x, y)

vcmpeqp(fsize, x, y) == Compare(fsize, FloatEqual, x, y)

\* maxp and minp give the second operand when a lane is a NaN and when the lanes
\* compare equal.
maxp(fsize, x, y) ==
    [i \in DOMAIN x |->
        IF Ordered(fsize, x[i], y[i]) /\ FloatLess(fsize, y[i], x[i]) THEN x[i] ELSE y[i]]

minp(fsize, x, y) ==
    [i \in DOMAIN x |->
        IF Ordered(fsize, x[i], y[i]) /\ FloatLess(fsize, x[i], y[i]) THEN x[i] ELSE y[i]]

\* vblendvp(dst, x, y, mask): y where the sign bit of the mask lane is set, else x.
vblendvp(x, y, mask) ==
    [i \in DOMAIN x |-> IF mask[i][1] >= 32768 THEN y[i] ELSE x[i]]

\* ptest(x, x) followed by jnz: some bit of x is set.
ptest(x) == \E i \in DOMAIN x : \E j \in DOMAIN x[i] : x[i][j] # 0

\* movmskps, cmp with 0 and jnz: the sign bit of some 32-bit element of x is set.
movmskps(x) ==
    \E i \in DOMAIN x : \E j \in DOMAIN x[i] : j % 2 = 1 /\ x[i][j] >= 32768

(***************************************************************************)
(* The emitted vector operations.                                          *)
(***************************************************************************)
\* pcmpeqw(tmp, tmp): every bit set.
pcmpeqw(fsize) == Broadcast(fsize, OnesLane(fsize))

\* MConst(xword, 0x7fc0'0000'7fc0'0000, ...) and MConst(xword, 0x7ff8'0000'0000'0000, ...)
DefaultNaNConst(fsize) ==
    Broadcast(fsize, [j \in 1..(fsize \div 16) |->
                        IF j = 1 THEN (IF fsize = 32 THEN \h7FC0 ELSE \h7FF8) ELSE 0])

\* The same post-processing with the mask taken from cmpunordp.
DefaultNaNFixupOnUnordered(fsize, xmm_a) ==
    LET tmp == pcmpeqw(fsize)
        nan_mask1 == cmpunordp(fsize, xmm_a, xmm_a)
        xmm_a1 == andps(xmm_a, nan_mask1)
        nan_mask2 == xorps(nan_mask1, tmp)
        nan_mask3 == andps(nan_mask2, DefaultNaNConst(fsize))
    IN  orps(xmm_a1, nan_mask3)

\* The post-processing of xmm_a when FPSCR.DN is set.
DefaultNaNFixup(fsize, xmm_a) ==
    LET tmp == pcmpeqw(fsize)
        nan_mask1 == cmpordp(fsize, xmm_a, xmm_a)
        xmm_a1 == andps(xmm_a, nan_mask1)
        nan_mask2 == xorps(nan_mask1, tmp)
        nan_mask3 == andps(nan_mask2, DefaultNaNConst(fsize))
    IN  orps(xmm_a1, nan_mask3)

\* A nan_mask that leaves out the comparison with the result.
NanMaskOfInputsOnly(fsize, inputs, result) ==
    LET m1 == cmpunordp(fsize, inputs[2], inputs[1])
    IN  IF Len(inputs) = 3 THEN cmpunordp(fsize, m1, inputs[3]) ELSE m1

\* nan_mask of the accurate path: movaps(nan_mask, xmm_b), cmpunordp with xmm_a
\* (and xmm_c), and after the operation cmpunordp with the result.
NanMask(fsize, inputs, result) ==
    LET m1 == cmpunordp(fsize, inputs[2], inputs[1])
        m2 == IF Len(inputs) = 3 THEN cmpunordp(fsize, m1, inputs[3]) ELSE m1
    IN  cmpunordp(fsize, m2, result)

\* HandleNaNs: the test before jnz(nan).
JumpsToNaN(sse41, nan_mask) ==
    IF sse41 THEN ptest(nan_mask) ELSE movmskps(nan_mask)

\* DefaultIndexer: element i of every operand.
DefaultIndexer(i, inputs) == [n \in DOMAIN inputs |-> inputs[n][i]]

\* An indexer that pairs the elements of a and b at the same position.
PairedIndexerLanewise(i, inputs) == <<inputs[1][i], inputs[2][i]>>

\* PairedIndexer: adjacent elements of a for the first half of the result, of b
\* for the second half (i counts from 1 here, from 0 in the source).
PairedIndexer(i, inputs) ==
    LET a == inputs[1]
        b == inputs[2]
        halfway == Len(a) \div 2
        which_array == (i - 1) \div halfway
        k == (i - 1) % halfway
    IN  IF which_array = 0 THEN <<a[2 * k + 1], a[2 * k + 2]>>
        ELSE <<b[2 * k + 1], b[2 * k + 2]>>

\* PairedLowerIndexer: for four elements (a0, a1), (b0, b1), (0, 0), (0, 0); for
\* two elements (a0, b0), (0, 0).
PairedLowerIndexer(i, inputs) ==
    LET a == inputs[1]
        b == inputs[2]
        zero == [j \in DOMAIN a[1] |-> 0]
    IN  IF Len(a) = 4
        THEN (CASE i = 1 -> <<a[1], a[2]>>
                [] i = 2 -> <<b[1], b[2]>>
                [] OTHER -> <<zero, zero>>)
        ELSE (IF i = 1 THEN <<a[1], b[1]>> ELSE <<zero, zero>>)

\* Indexer{}(i, args...) for the Indexer the emitter was instantiated with.
IndexerCall(Indexer, i, inputs) ==
    CASE Indexer = "PairedIndexer" -> PairedIndexer(i, inputs)
      [] Indexer = "PairedLowerIndexer" -> PairedLowerIndexer(i, inputs)
      [] OTHER -> DefaultIndexer(i, inputs)

\* A handler that takes the first NaN operand as it is.
NaNHandlerFirstQuiet(fsize, Indexer, result, inputs) ==
    [i \in DOMAIN result |->
        LET current_values == IndexerCall(Indexer, i, inputs)
            qnans == {n \in DOMAIN current_values : IsNaN(fsize, current_values[n])}
        IN  IF qnans # {}
            THEN current_values[CHOOSE n \in qnans : \A o \in qnans : n <= o]
            ELSE IF IsNaN(fsize, result[i]) THEN DefaultNaN(fsize)
            ELSE result[i]]

\* NaNHandler::GetDefaultImpl: values[0] is the result, the rest the operands,
\* taken element by element through the Indexer.
NaNHandler(fsize, Indexer, result, inputs) ==
    [i \in DOMAIN result |->
        LET current_values == IndexerCall(Indexer, i, inputs)
            r == ProcessNaNs(fsize, current_values)
        IN  IF r.has THEN r.value
            ELSE IF IsNaN(fsize, result[i]) THEN DefaultNaN(fsize)
            ELSE result[i]]

\* FP::IsInf, FP::IsZero
IsInf(fsize, lane) ==
    /\ Exponent(fsize, lane) = (IF fsize = 32 THEN 255 ELSE 2047)
    /\ FractionIsZero(fsize, lane)

\* The handler EmitFPVectorMulAdd passes for the fused multiply-add.
MulAddNaNHandler(fsize, result, inputs) ==
    [i \in DOMAIN result |->
        LET a == inputs[1][i]
            b == inputs[2][i]
            c == inputs[3][i]
            r == ProcessNaNs(fsize, <<a, b, c>>)
        IN  IF /\ IsQNaN(fsize, a)
               /\ \/ IsInf(fsize, b) /\ IsZeroLane(fsize, c)
                  \/ IsZeroLane(fsize, b) /\ IsInf(fsize, c)
            THEN DefaultNaN(fsize)
            ELSE IF r.has THEN r.value
            ELSE IF IsNaN(fsize, result[i]) THEN DefaultNaN(fsize)
            ELSE result[i]]

\* haddps and haddpd(x, y): the two elements added into each element of the
\* result, adjacent pairs of x and then of y.
haddp(x, y) ==
    IF Len(x) = 4
    THEN << <<x[1], x[2]>>, <<x[3], x[4]>>, <<y[1], y[2]>>, <<y[3], y[4]>> >>
    ELSE << <<x[1], x[2]>>, <<y[1], y[2]>> >>

\* punpcklqdq(x, y): the low 64 bits of x, then the low 64 bits of y.
punpcklqdq(x, y) ==
    IF Len(x) = 4 THEN <<x[1], x[2], y[1], y[2]>> ELSE <<x[1], y[1]>>

\* The lambda of EmitFPVectorPairedAddLower32/64: xorps(zero, zero),
\* punpcklqdq(result, xmm_b), haddps/haddpd(result, zero).
PairedAddLower(fsize, result, xmm_b) ==
    LET zero == xorps(result, result)
    IN  haddp(punpcklqdq(result, xmm_b), zero)

\* The plain x86 max, without the blend.
FPVectorMaxNoBlend(fsize, avx, result, xmm_b) == maxp(fsize, result, xmm_b)

\* The lambda of EmitFPVectorMax, with and without AVX.
FPVectorMax(fsize, avx, result, xmm_b) ==
    IF avx
    THEN LET mask == vcmpeqp(fsize, result, xmm_b)
             anded == andps(result, xmm_b)
             result1 == maxp(fsize, result, xmm_b)
         IN  vblendvp(result1, anded, mask)
    ELSE LET mask == cmpneqp(fsize, result, xmm_b)
             anded == andps(result, xmm_b)
             result1 == maxp(fsize, result, xmm_b)
             result2 == andps(result1, mask)
             mask1 == andnps(mask, anded)
         IN  orps(result2, mask1)

\* The lambda of EmitFPVectorMin, with and without AVX.
FPVectorMin(fsize, avx, result, xmm_b) ==
    IF avx
    THEN LET mask == vcmpeqp(fsize, result, xmm_b)
             ored == orps(result, xmm_b)
             result1 == minp(fsize, result, xmm_b)
         IN  vblendvp(result1, ored, mask)
    ELSE LET mask == cmpneqp(fsize, result, xmm_b)
             ored == orps(result, xmm_b)
             result1 == minp(fsize, result, xmm_b)
             result2 == andps(result1, mask)
             mask1 == andnps(mask, ored)
         IN  orps(result2, mask1)

(***************************************************************************)
(* Floating-point numbers by their fields.  Scaling and rounding work on   *)
(* the sign, the exponent and the leading fraction bits: all 23 of a       *)
(* 32-bit lane, the first 20 of a 64-bit lane whose two low words are 0.   *)
(***************************************************************************)
RECURSIVE Pow2(_)
Pow2(n) == IF n = 0 THEN 1 ELSE 2 * Pow2(n - 1)

FracBits(fsize) == IF fsize = 32 THEN 23 ELSE 20
ExponentBias(fsize) == IF fsize = 32 THEN 127 ELSE 1023
MaxExponent(fsize) == IF fsize = 32 THEN 255 ELSE 2047
IsNegative(lane) == lane[1] >= 32768
Fraction(fsize, lane) ==
    (IF fsize = 32 THEN lane[1] % 128 ELSE lane[1] % 16) * 65536 + lane[2]

\* The lane with the given sign, biased exponent and leading fraction bits.
Pack(fsize, neg, exp, frac) ==
    LET top == (IF neg THEN 32768 ELSE 0)
               + exp * (IF fsize = 32 THEN 128 ELSE 16) + frac \div 65536
    IN  IF fsize = 32 THEN <<top, frac % 65536>> ELSE <<top, frac % 65536, 0, 0>>

\* The highest k with 2^k <= n, for n >= 1.
RECURSIVE Log2(_)
Log2(n) == IF n < 2 THEN 0 ELSE 1 + Log2(n \div 2)

\* The float holding the integer n, 0 <= n <= 2^(FracBits + 1), with the given sign.
FromInteger(fsize, neg, n) ==
    IF n = 0 THEN Pack(fsize, neg, 0, 0)
    ELSE LET k == Log2(n)
         IN  Pack(fsize, neg, ExponentBias(fsize) + k,
                  IF k > FracBits(fsize) THEN 0
                  ELSE (n - Pow2(k)) * Pow2(FracBits(fsize) - k))

\* Whether rounding adds one to the magnitude q, given the discarded part
\* (none, below half, half, above half) and the sign.
RoundsUp(rounding, neg, q, rest) ==
    CASE rest = "none" -> FALSE
      [] rounding = "ToNearest_TieEven" ->
            rest = "above" \/ (rest = "half" /\ q % 2 = 1)
      [] rounding = "ToNearest_TieAwayFromZero" -> rest \in {"half", "above"}
      [] rounding = "TowardsPlusInfinity" -> ~neg
      [] rounding = "TowardsMinusInfinity" -> neg
      [] OTHER -> FALSE

Rest(r, half) ==
    IF r = 0 THEN "none" ELSE IF r < half THEN "below"
    ELSE IF r = half THEN "half" ELSE "above"

\* vroundp, and the rounding of the software conversion: the lane rounded to an
\* integral value.
RoundToIntegral(fsize, rounding, lane) ==
    LET neg == IsNegative(lane)
        e == Exponent(fsize, lane) - ExponentBias(fsize)
        m == Pow2(FracBits(fsize)) + Fraction(fsize, lane)
    IN  IF IsNaN(fsize, lane) THEN Quieted(fsize, lane)
        ELSE IF IsZeroLane(fsize, lane) \/ e >= FracBits(fsize) THEN lane
        ELSE IF e < -1
             THEN FromInteger(fsize, neg,
                      IF RoundsUp(rounding, neg, 0, "below") THEN 1 ELSE 0)
        ELSE LET shift == FracBits(fsize) - e
                 q == m \div Pow2(shift)
                 rest == Rest(m % Pow2(shift), Pow2(shift - 1))
             IN  FromInteger(fsize, neg,
                     IF RoundsUp(rounding, neg, q, rest) THEN q + 1 ELSE q)

\* vmulp by the broadcast scale factor 2^fbits (zeros, normal numbers,
\* infinities and NaNs).
ScaleBy(fsize, fbits, lane) ==
    IF IsNaN(fsize, lane) THEN Quieted(fsize, lane)
    ELSE IF IsZeroLane(fsize, lane) \/ Exponent(fsize, lane) = MaxExponent(fsize) THEN lane
    ELSE IF Exponent(fsize, lane) + fbits >= MaxExponent(fsize)
         THEN Pack(fsize, IsNegative(lane), MaxExponent(fsize), 0)
    ELSE Pack(fsize, IsNegative(lane), Exponent(fsize, lane) + fbits, Fraction(fsize, lane))

vmulp_scale(fsize, fbits, src) == [i \in DOMAIN src |-> ScaleBy(fsize, fbits, src[i])]
vroundp(fsize, rounding, src) ==
    [i \in DOMAIN src |-> RoundToIntegral(fsize, rounding, src[i])]

\* The comparison predicates of the limit masks.
LessOrdered(fsize, x, y) == Ordered(fsize, x, y) /\ FloatLess(fsize, x, y)
GreaterEqualOrdered(fsize, x, y) == Ordered(fsize, x, y) /\ ~FloatLess(fsize, x, y)
NotGreaterEqualUnordered(fsize, x, y) == Unordered(fsize, x, y) \/ FloatLess(fsize, x, y)

vcmplt_oqp(fsize, x, y) == Compare(fsize, LessOrdered, x, y)
vcmpge_oqp(fsize, x, y) == Compare(fsize, GreaterEqualOrdered, x, y)
vcmpnge_uqp(fsize, x, y) == Compare(fsize, NotGreaterEqualUnordered, x, y)

(***************************************************************************)
(* FP-to-fixed conversion.                                                 *)
(***************************************************************************)
\* fp_lower_limit and fp_upper_limit, broadcast.
fp_lower_limit(fsize, unsigned_) ==
    IF unsigned_ THEN ZeroLane(fsize)
    ELSE IF fsize = 32 THEN <<\hCF00, 0>> ELSE <<\hC3E0, 0, 0, 0>>

fp_upper_limit(fsize, unsigned_) ==
    IF unsigned_ THEN (IF fsize = 32 THEN <<\h4F80, 0>> ELSE <<\h43F0, 0, 0, 0>>)
    ELSE (IF fsize = 32 THEN <<\h4F00, 0>> ELSE <<\h43E0, 0, 0, 0>>)

\* lower_limit_mask: vxorp and vcmpnge_uqp(scratch, src) when the limit is 0,
\* else vbroadcasts and vcmplt_oqp(scratch, src).
LowerLimitMask(fsize, unsigned_, src) ==
    IF unsigned_
    THEN vcmpnge_uqp(fsize, Broadcast(fsize, ZeroLane(fsize)), src)
    ELSE vcmplt_oqp(fsize, Broadcast(fsize, fp_lower_limit(fsize, unsigned_)), src)

\* upper_limit_mask: vcmpge_oqp(src, scratch)
UpperLimitMask(fsize, unsigned_, src) ==
    vcmpge_oqp(fsize, src, Broadcast(fsize, fp_upper_limit(fsize, unsigned_)))

\* The AVX path of EmitFPVectorToFixed up to its return: src after scaling and
\* rounding, the two masks, and src after the two vandnp.
ToFixedFastPath(fsize, unsigned_, fbits, rounding, src) ==
    LET scaled == IF fbits # 0 THEN vmulp_scale(fsize, fbits, src) ELSE src
        rounded == vroundp(fsize, rounding, scaled)
        lower_limit_mask == LowerLimitMask(fsize, unsigned_, rounded)
        upper_limit_mask == UpperLimitMask(fsize, unsigned_, rounded)
        src1 == andnps(upper_limit_mask, rounded)
        src2 == andnps(lower_limit_mask, src1)
    IN  [rounded |-> rounded, lower_limit_mask |-> lower_limit_mask,
         upper_limit_mask |-> upper_limit_mask, src |-> src2]

\* Integers as words, the most significant first: doubling, shifting left,
\* two's complement.
DoubleWords(w) ==
    [j \in DOMAIN w |->
        (2 * w[j] + (IF j < Len(w) /\ w[j + 1] >= 32768 THEN 1 ELSE 0)) % 65536]

RECURSIVE ShiftLeftWords(_, _)
ShiftLeftWords(w, n) == IF n = 0 THEN w ELSE ShiftLeftWords(DoubleWords(w), n - 1)

RECURSIVE Increment(_, _)
Increment(w, j) ==
    IF j = 0 THEN w
    ELSE IF w[j] = 65535 THEN Increment([w EXCEPT ![j] = 0], j - 1)
    ELSE [w EXCEPT ![j] = w[j] + 1]

Negate(w) == Increment([j \in DOMAIN w |-> 65535 - w[j]], Len(w))

\* The integer an integral lane within the limits holds, as fsize bits.
IntegerOf(fsize, lane) ==
    LET e == Exponent(fsize, lane) - ExponentBias(fsize)
        m == Pow2(FracBits(fsize)) + Fraction(fsize, lane)
        n == fsize \div 16
        words(v) == [j \in 1..n |-> IF j = n THEN v % 65536
                                    ELSE IF j = n - 1 THEN v \div 65536 ELSE 0]
        magnitude == IF IsZeroLane(fsize, lane) THEN words(0)
                     ELSE IF e <= FracBits(fsize)
                          THEN words(m \div Pow2(FracBits(fsize) - e))
                     ELSE ShiftLeftWords(words(m), e - FracBits(fsize))
    IN  IF IsNegative(lane) THEN Negate(magnitude) ELSE magnitude

\* The extreme fixed-point values.
FixedMax(fsize, unsigned_) ==
    [j \in 1..(fsize \div 16) |-> IF j = 1 /\ ~unsigned_ THEN 32767 ELSE 65535]

FixedMin(fsize, unsigned_) ==
    [j \in 1..(fsize \div 16) |-> IF j = 1 /\ ~unsigned_ THEN 32768 ELSE 0]

\* FP::FPToFixed on one lane: 0 for a NaN; else scale, round, saturate, convert.
FPToFixed(fsize, unsigned_, fbits, rounding, lane) ==
    LET v == RoundToIntegral(fsize, rounding, ScaleBy(fsize, fbits, lane))
    IN  IF IsNaN(fsize, lane) THEN ZeroLane(fsize)
        ELSE IF ~FloatLess(fsize, v, fp_upper_limit(fsize, unsigned_))
             THEN FixedMax(fsize, unsigned_)
        ELSE IF FloatLess(fsize, v, fp_lower_limit(fsize, unsigned_))
             THEN FixedMin(fsize, unsigned_)
        ELSE IntegerOf(fsize, v)

\* The function the lookup table holds for (fbits, rounding).
ToFixedSoftware(fsize, unsigned_, fbits, rounding, input) ==
    [i \in DOMAIN input |-> FPToFixed(fsize, unsigned_, fbits, rounding, input[i])]

(***************************************************************************)
(* Unsigned integers to floating point.                                    *)
(***************************************************************************)
\* The bits of an integer of 16-bit words, and the words of a sequence of
\* bits, the most significant first.
BitsOf(w) ==
    [k \in 1..(16 * Len(w)) |-> (w[(k - 1) \div 16 + 1] \div Pow2(15 - ((k - 1) % 16))) % 2]

RECURSIVE BitsValue(_, _, _)
BitsValue(bits, from, to) ==
    IF from > to THEN 0 ELSE 2 * BitsValue(bits, from, to - 1) + bits[to]

WordsOf(bits) ==
    [j \in 1..(Len(bits) \div 16) |-> BitsValue(bits, 16 * (j - 1) + 1, 16 * j)]

RECURSIVE IncrementBits(_, _)
IncrementBits(b, j) ==
    IF j = 0 THEN b
    ELSE IF b[j] = 1 THEN IncrementBits([b EXCEPT ![j] = 0], j - 1)
    ELSE [b EXCEPT ![j] = 1]

\* The explicit mantissa width and the exponent width of a lane.
MantissaWidth(fsize) == IF fsize = 32 THEN 23 ELSE 52
ExponentWidth(fsize) == IF fsize = 32 THEN 8 ELSE 11

\* The unsigned integer w of fsize bits as a floating-point lane of fsize
\* bits, rounded once in the given mode: what vcvtudq2ps and vcvtuqq2pd
\* compute under MXCSR.RC.  Zero converts to +0 in every mode.
ConvertUnsigned(fsize, rounding, w) ==
    LET bits == BitsOf(w)
        ones == {k \in DOMAIN bits : bits[k] = 1}
        lead == CHOOSE k \in ones : \A o \in ones : k <= o
        width == MantissaWidth(fsize)
        frac == SubSeq(bits \o [k \in 1..width |-> 0], lead + 1, lead + width)
        half == IF lead + width + 1 <= fsize THEN bits[lead + width + 1] ELSE 0
        low == \E k \in (lead + width + 2)..fsize : bits[k] = 1
        rest == IF half = 0 THEN (IF low THEN "below" ELSE "none")
                ELSE (IF low THEN "above" ELSE "half")
        up == RoundsUp(rounding, FALSE, frac[width], rest)
        carry == up /\ \A k \in 1..width : frac[k] = 1
        rounded == IF up THEN IncrementBits(frac, width) ELSE frac
        exp == ExponentBias(fsize) + (fsize - lead) + (IF carry THEN 1 ELSE 0)
        ebits == [k \in 1..ExponentWidth(fsize) |->
                     (exp \div Pow2(ExponentWidth(fsize) - k)) % 2]
    IN  IF ones = {} THEN ZeroLane(fsize)
        ELSE WordsOf(<<0>> \o ebits \o rounded)

vcvtudq2ps(rounding, xmm) == [i \in DOMAIN xmm |-> ConvertUnsigned(32, rounding, xmm[i])]
vcvtuqq2pd(rounding, xmm) == [i \in DOMAIN xmm |-> ConvertUnsigned(64, rounding, xmm[i])]

\* The sum of a significand shifted to the binary point of the larger operand:
\* the exponent and the significand with three more bits, the last one sticky.
RECURSIVE NormaliseSum(_, _)
NormaliseSum(e, s) ==
    IF s >= Pow2(27)
    THEN [e |-> e + 1,
          s |-> s \div 2 + (IF s % 2 = 1 /\ (s \div 2) % 2 = 0 THEN 1 ELSE 0)]
    ELSE IF s < Pow2(26) THEN NormaliseSum(e - 1, 2 * s)
    ELSE [e |-> e, s |-> s]

\* addps on one lane of zeros and normal numbers, under MXCSR.RC: the sum of
\* the two numbers rounded once, and whether the rounding changed it.
AddSingle(rounding, x, y) ==
    LET xbig == \/ Exponent(32, x) > Exponent(32, y)
                \/ Exponent(32, x) = Exponent(32, y) /\ Fraction(32, x) >= Fraction(32, y)
        a == IF xbig THEN x ELSE y
        b == IF xbig THEN y ELSE x
        ma == (Pow2(23) + Fraction(32, a)) * 8
        mb == (Pow2(23) + Fraction(32, b)) * 8
        d == Exponent(32, a) - Exponent(32, b)
        q == IF d >= 27 THEN 0 ELSE mb \div Pow2(d)
        r == IF d >= 27 THEN mb ELSE mb % Pow2(d)
        aligned == IF r # 0 /\ q % 2 = 0 THEN q + 1 ELSE q
        s == IF IsNegative(a) = IsNegative(b) THEN ma + aligned ELSE ma - aligned
        n == NormaliseSum(Exponent(32, a), s)
        m == n.s \div 8
        up == RoundsUp(rounding, IsNegative(a), m, Rest(n.s % 8, 4))
        m2 == IF up THEN m + 1 ELSE m
    IN  IF IsZeroLane(32, b) THEN [value |-> a, inexact |-> FALSE]
        ELSE IF s = 0
             THEN [value |-> IF rounding = "TowardsMinusInfinity"
                             THEN Pack(32, TRUE, 0, 0) ELSE ZeroLane(32),
                   inexact |-> FALSE]
        ELSE [value |-> IF m2 = Pow2(24) THEN Pack(32, IsNegative(a), n.e + 1, 0)
                        ELSE Pack(32, IsNegative(a), n.e, m2 - Pow2(23)),
              inexact |-> n.s % 8 # 0]

addps(rounding, x, y) == [i \in DOMAIN x |-> AddSingle(rounding, x[i], y[i]).value]
addps_inexact(rounding, x, y) ==
    \E i \in DOMAIN x : AddSingle(rounding, x[i], y[i]).inexact

\* vpblendw(x, y, 0b10101010): the odd 16-bit words, the upper half of every
\* 32-bit element, from y, the others from x.
vpblendw(x, y) == [i \in DOMAIN x |-> <<y[i][1], x[i][2]>>]

\* psrld and vpsrld by 16
psrld16(x) == [i \in DOMAIN x |-> <<0, x[i][1]>>]

mem_4B000000 == Broadcast(32, <<\h4B00, 0>>)
mem_53000000 == Broadcast(32, <<\h5300, 0>>)
mem_D3000080 == Broadcast(32, <<\hD300, \h0080>>)
mem_0xFFFF == Broadcast(32, <<0, \hFFFF>>)

\* The sequence with the low halves biased by 0x53000000 as well.
U32ToSingleSequenceOneBias(avx, rounding, xmm) ==
    LET tmp == IF avx THEN vpblendw(xmm, mem_53000000)
               ELSE orps(andps(mem_0xFFFF, xmm), mem_53000000)
        high == IF avx THEN vpblendw(psrld16(xmm), mem_53000000)
                ELSE orps(psrld16(xmm), mem_53000000)
        biased == addps(rounding, high, mem_D3000080)
    IN  [value |-> addps(rounding, biased, tmp),
         exact |-> ~addps_inexact(rounding, high, mem_D3000080)]

\* EmitFPVectorU32ToSingle without AVX-512: the AVX and the SSE sequence, under
\* MXCSR.RC; the register, and whether the first addition was exact.
U32ToSingleSequence(avx, rounding, xmm) ==
    LET tmp == IF avx THEN vpblendw(xmm, mem_4B000000)
               ELSE orps(andps(mem_0xFFFF, xmm), mem_4B000000)
        high == IF avx THEN vpblendw(psrld16(xmm), mem_53000000)
                ELSE orps(psrld16(xmm), mem_53000000)
        biased == addps(rounding, high, mem_D3000080)
    IN  [value |-> addps(rounding, biased, tmp),
         exact |-> ~addps_inexact(rounding, high, mem_D3000080)]

\* EmitFPVectorU64ToDouble without AVX-512, AVX and SSE alike: each 32-bit half
\* is unpacked under the exponent of 2^52 or 2^84 and that power subtracted,
\* which is exact; the sum of the two halves is rounded once.  A difference
\* and a sum of zeros are -0 when rounding towards minus infinity, else +0.
U64ToDoubleSequence(rounding, xmm) ==
    [i \in DOMAIN xmm |->
        IF xmm[i] = ZeroLane(64)
        THEN (IF rounding = "TowardsMinusInfinity" THEN Pack(64, TRUE, 0, 0) ELSE ZeroLane(64))
        ELSE ConvertUnsigned(64, rounding, xmm[i])]

\* No sign mask in any rounding mode.
SignMaskNever(fsize, rmode, xmm) == [emitted |-> FALSE, value |-> xmm]

\* if (ctx.FPSCR_RMode() == TowardsMinusInfinity) pand(xmm, 0x7FFF...): whether
\* the pand is emitted, and xmm after it.
SignMask(fsize, rmode, xmm) ==
    IF rmode = "TowardsMinusInfinity"
    THEN [emitted |-> TRUE,
          value |-> andps(xmm, Broadcast(fsize, [j \in 1..(fsize \div 16) |->
                                                   IF j = 1 THEN \h7FFF ELSE \hFFFF]))]
    ELSE [emitted |-> FALSE, value |-> xmm]

(***************************************************************************)
(* The host stack around an out-of-line call.  rsp counts bytes from its   *)
(* value on entry; a program is the sequence of the emitted instructions   *)
(* that move rsp or address the stack.                                     *)
(***************************************************************************)
ABIs == {"SysV", "Windows"}

\* ABI_SHADOW_SPACE
ABI_SHADOW_SPACE(abi) == IF abi = "Windows" THEN 32 ELSE 0

sub_rsp(n) == [k |-> "sub", n |-> n]
add_rsp(n) == [k |-> "add", n |-> n]
lea_param(param, off) == [k |-> "lea", param |-> param, off |-> off]
\* movaps(xword[rsp + off], xmm) and mov(qword[rsp + off], reg)
store_rsp(off, size) == [k |-> "store", base |-> 0, off |-> off, size |-> size]
\* movaps(xword[ABI_PARAMn], xmm)
store_param(param) == [k |-> "store", base |-> param, off |-> 0, size |-> 16]
\* movaps(xmm, xword[rsp + off]) of the result
load_result(off) == [k |-> "load", off |-> off]
push_regs(regs) == [k |-> "push", regs |-> regs]
pop_regs(regs) == [k |-> "pop", regs |-> regs]
CallFunction == [k |-> "call"]

StackAtEntry ==
    [rsp |-> 0, frames |-> <<>>, pushed |-> <<>>, params |-> <<0, 0, 0, 0>>,
     accesses |-> <<>>, reload |-> 0, calls |-> 0, underflow |-> FALSE]

\* One instruction on the stack state.  frames holds the sizes reserved by sub
\* and not yet released; an access is recorded with the bounds of the space
\* reserved last and not claimed by the callee as shadow space.
StackStep(st, ins, abi) ==
    LET access(addr, size) ==
            [addr |-> addr, size |-> size,
             lo |-> st.rsp + ABI_SHADOW_SPACE(abi),
             hi |-> st.rsp + (IF st.frames = <<>> THEN 0 ELSE st.frames[Len(st.frames)])]
    IN  CASE ins.k = "sub" ->
                [st EXCEPT !.rsp = st.rsp - ins.n, !.frames = Append(st.frames, ins.n)]
          [] ins.k = "add" ->
                IF st.frames # <<>> /\ st.frames[Len(st.frames)] = ins.n
                THEN [st EXCEPT !.rsp = st.rsp + ins.n,
                                !.frames = SubSeq(st.frames, 1, Len(st.frames) - 1)]
                ELSE [st EXCEPT !.rsp = st.rsp + ins.n, !.underflow = TRUE]
          [] ins.k = "push" ->
                [st EXCEPT !.rsp = st.rsp - 8 * Len(ins.regs),
                           !.pushed = st.pushed \o ins.regs]
          [] ins.k = "pop" ->
                LET n == Len(ins.regs)
                    top == IF Len(st.pushed) >= n
                           THEN SubSeq(st.pushed, Len(st.pushed) - n + 1, Len(st.pushed))
                           ELSE <<>>
                IN  IF top = [j \in 1..n |-> ins.regs[n + 1 - j]] /\ n > 0
                    THEN [st EXCEPT !.rsp = st.rsp + 8 * n,
                                    !.pushed = SubSeq(st.pushed, 1, Len(st.pushed) - n)]
                    ELSE [st EXCEPT !.rsp = st.rsp + 8 * n, !.underflow = (n > 0)]
          [] ins.k = "lea" ->
                [st EXCEPT !.params[ins.param] = st.rsp + ins.off]
          [] ins.k = "store" ->
                [st EXCEPT !.accesses =
                    Append(st.accesses,
                           access((IF ins.base = 0 THEN st.rsp ELSE st.params[ins.base])
                                      + ins.off, ins.size))]
          [] ins.k = "load" ->
                [st EXCEPT !.accesses = Append(st.accesses, access(st.rsp + ins.off, 16)),
                           !.reload = st.rsp + ins.off]
          [] OTHER -> [st EXCEPT !.calls = st.calls + 1]

RECURSIVE StackRun(_, _, _, _)
StackRun(st, program, j, abi) ==
    IF j > Len(program) THEN st
    ELSE StackRun(StackStep(st, program[j], abi), program, j + 1, abi)

(***************************************************************************)
(* Running the code emitted for one vector instruction: the near code up   *)
(* to DefineValue or to the jump into far code, then the far code.         *)
(***************************************************************************)
ThreeOps == {"FPVectorAdd", "FPVectorMax", "FPVectorMin"}
PairedOps == {"FPVectorPairedAdd", "FPVectorPairedAddLower"}
FourOps == {"FPVectorMulAdd"}

\* Lane values: the first word for 32-bit and for 64-bit lanes, and the last word.
Float(fsize, top32, top64, last) ==
    IF fsize = 32 THEN <<top32, last>> ELSE <<top64, 0, 0, last>>

PlusZero(fsize) == Float(fsize, 0, 0, 0)
MinusZero(fsize) == Float(fsize, \h8000, \h8000, 0)
One(fsize) == Float(fsize, \h3F80, \h3FF0, 0)
Two(fsize) == Float(fsize, \h4000, \h4000, 0)
Three(fsize) == Float(fsize, \h4040, \h4008, 0)
Four(fsize) == Float(fsize, \h4080, \h4010, 0)
PlusInf(fsize) == Float(fsize, \h7F80, \h7FF0, 0)
qNaN_a(fsize) == Float(fsize, \h7FC0, \h7FF8, 1)
qNaN_b(fsize) == Float(fsize, \h7FC0, \h7FF8, 2)
sNaN_c(fsize) == Float(fsize, \h7F80, \h7FF0, 3)
qNaN_d(fsize) == Float(fsize, \hFFC0, \hFFF8, 4)
\* The NaN the host produces for an invalid operation on numbers.
Indefinite(fsize) == Float(fsize, \hFFC0, \hFFF8, 0)

\* A register from lanes given for the 32-bit layout; the 64-bit layout keeps
\* the lanes listed in keep.
Register(fsize, lanes, keep) ==
    IF fsize = 32 THEN lanes ELSE <<lanes[keep[1]], lanes[keep[2]]>>

\* The operand registers the instruction is run on.
OperandPool(fsize) ==
    LET R(w, x, y, z, keep) == Register(fsize, <<w, x, y, z>>, keep)
    IN  { R(One(fsize), qNaN_a(fsize), Two(fsize), qNaN_b(fsize), <<1, 2>>),
          R(Three(fsize), Four(fsize), sNaN_c(fsize), qNaN_d(fsize), <<1, 3>>),
          R(Two(fsize), qNaN_b(fsize), sNaN_c(fsize), One(fsize), <<3, 2>>),
          R(PlusZero(fsize), MinusZero(fsize), One(fsize), Two(fsize), <<1, 2>>),
          R(MinusZero(fsize), PlusZero(fsize), One(fsize), One(fsize), <<1, 2>>),
          R(One(fsize), Two(fsize), PlusInf(fsize), Four(fsize), <<3, 4>>) }

ThirdOperandPool(fsize) ==
    LET R(w, x, y, z, keep) == Register(fsize, <<w, x, y, z>>, keep)
    IN  { R(PlusZero(fsize), Two(fsize), One(fsize), Three(fsize), <<1, 2>>),
          R(One(fsize), qNaN_d(fsize), sNaN_c(fsize), Two(fsize), <<1, 3>>) }

\* The host's arithmetic on the operands of one lane: a NaN operand gives that
\* NaN quieted; zeros give a zero; other numbers give a number or, for an
\* invalid operation, the indefinite NaN.
ArithmeticLane(fsize, operands) ==
    LET nans == {n \in DOMAIN operands : IsNaN(fsize, operands[n])}
    IN  IF nans # {} THEN {Quieted(fsize, operands[n]) : n \in nans}
        ELSE IF \A n \in DOMAIN operands : IsZeroLane(fsize, operands[n])
             THEN {PlusZero(fsize), MinusZero(fsize)}
        ELSE {Four(fsize), Indefinite(fsize)}

\* The registers the host's arithmetic can leave, given the operands of each lane.
ArithmeticOn(fsize, operands) ==
    LET L(i) == ArithmeticLane(fsize, operands[i])
    IN  IF fsize = 32
        THEN {<<w, x, y, z>> : w \in L(1), x \in L(2), y \in L(3), z \in L(4)}
        ELSE {<<w, x>> : w \in L(1), x \in L(2)}

\* addps, vfmadd231ps and the like: element i of every operand.
Arithmetic(fsize, inputs) ==
    ArithmeticOn(fsize, [i \in DOMAIN inputs[1] |-> DefaultIndexer(i, inputs)])

\* fn(result, xmm_b) and fn(result, xmm_b, xmm_c): what the operation leaves in
\* its first operand.
Fn(op, fsize, avx, inputs) ==
    CASE op = "FPVectorMax" -> {FPVectorMax(fsize, avx, inputs[1], inputs[2])}
      [] op = "FPVectorMin" -> {FPVectorMin(fsize, avx, inputs[1], inputs[2])}
      [] op = "FPVectorPairedAdd" -> ArithmeticOn(fsize, haddp(inputs[1], inputs[2]))
      [] op = "FPVectorPairedAddLower" ->
            ArithmeticOn(fsize, PairedAddLower(fsize, inputs[1], inputs[2]))
      [] OTHER -> Arithmetic(fsize, inputs)

\* The fast path of both emitters: the operation, the fixup under FPSCR.DN,
\* DefineValue(inst, xmm_a).
FastPath ==
    /\ ~x64.AccurateNaN \/ x64.FPSCR_DN
    /\ \E raw \in Fn(x64.op, x64.fsize, x64.AVX, x64.inputs) :
         x64' = [x64 EXCEPT !.stage = "defined",
                            !.raw = raw,
                            !.result = IF x64.FPSCR_DN
                                       THEN DefaultNaNFixup(x64.fsize, raw)
                                       ELSE raw,
                            !.defines = x64.defines + 1,
                            !.defined_reg = "UseScratchXmm"]

\* The accurate path: nan_mask, the operation, HandleNaNs' test and jump;
\* without the jump, DefineValue(inst, result).
AccuratePath ==
    /\ ~(~x64.AccurateNaN \/ x64.FPSCR_DN)
    /\ \E raw \in Fn(x64.op, x64.fsize, x64.AVX, x64.inputs) :
         LET nan_mask == NanMask(x64.fsize, x64.inputs, raw)
             jump == JumpsToNaN(x64.SSE41, nan_mask)
         IN  x64' = [x64 EXCEPT !.stage = IF jump THEN "nan" ELSE "defined",
                                !.raw = raw,
                                !.nan_mask = nan_mask,
                                !.result = raw,
                                !.defines = IF jump THEN x64.defines ELSE x64.defines + 1,
                                !.defined_reg = IF jump THEN "" ELSE "ScratchXmm"]

EmitThreeOpVectorOperation ==
    /\ pc = "emit"
    /\ x64.stage = "start"
    /\ x64.op \in ThreeOps \cup PairedOps
    /\ FastPath \/ AccuratePath
    /\ UNCHANGED << mem, fill, read_only, ltr, descriptor, current_location, block, term,
                    cycle_count, should_continue, inst_size, pc, visited, set_term_calls,
                    mem_reads, cb_log, pass_runs, prev_block >>

EmitFourOpVectorOperation ==
    /\ pc = "emit"
    /\ x64.stage = "start"
    /\ x64.op \in FourOps
    /\ x64.FMA
    /\ FastPath \/ AccuratePath
    /\ UNCHANGED << mem, fill, read_only, ltr, descriptor, current_location, block, term,
                    cycle_count, should_continue, inst_size, pc, visited, set_term_calls,
                    mem_reads, cb_log, pass_runs, prev_block >>

\* nan_handler of the instruction: the default one over the instruction's
\* Indexer, or the one EmitFPVectorMulAdd passes.
CallNaNHandler(op, fsize, result, inputs) ==
    CASE op = "FPVectorMulAdd" -> MulAddNaNHandler(fsize, result, inputs)
      [] op = "FPVectorPairedAdd" -> NaNHandler(fsize, "PairedIndexer", result, inputs)
      [] op = "FPVectorPairedAddLower" ->
            NaNHandler(fsize, "PairedLowerIndexer", result, inputs)
      [] OTHER -> NaNHandler(fsize, "DefaultIndexer", result, inputs)

\* The general registers ABI_PushCallerSaveRegistersAndAdjustStackExcept pushes.
CallerSaveRegisters(abi) ==
    IF abi = "Windows" THEN <<"rax", "rcx", "rdx", "r8", "r9", "r10", "r11">>
    ELSE <<"rax", "rcx", "rdx", "rdi", "rsi", "r8", "r9", "r10", "r11">>

Reverse(q) == [j \in DOMAIN q |-> q[Len(q) + 1 - j]]

\* The far code of HandleNaNs on the stack, for xmms of nxmms registers.
HandleNaNsProgram(nxmms, abi) ==
    LET space == nxmms * 16 + ABI_SHADOW_SPACE(abi)
    IN  <<sub_rsp(8), push_regs(CallerSaveRegisters(abi)), sub_rsp(space)>>
        \o [i \in 1..nxmms |-> store_rsp(ABI_SHADOW_SPACE(abi) + (i - 1) * 16, 16)]
        \o <<lea_param(1, ABI_SHADOW_SPACE(abi) + 0 * 16), CallFunction,
             load_result(ABI_SHADOW_SPACE(abi) + 0 * 16), add_rsp(space),
             pop_regs(Reverse(CallerSaveRegisters(abi))), add_rsp(8)>>

\* The far code of HandleNaNs: spill, CallFunction(nan_handler), reload the
\* result, jump back to end, DefineValue(inst, result).
HandleNaNs ==
    /\ pc = "emit"
    /\ x64.stage = "nan"
    /\ x64' = [x64 EXCEPT !.stage = "defined",
                          !.far = TRUE,
                          !.result = CallNaNHandler(x64.op, x64.fsize, x64.raw, x64.inputs),
                          !.stack = StackRun(StackAtEntry,
                                             HandleNaNsProgram(Len(x64.inputs) + 1, x64.abi),
                                             1, x64.abi),
                          !.defines = x64.defines + 1,
                          !.defined_reg = "ScratchXmm"]
    /\ UNCHANGED << mem, fill, read_only, ltr, descriptor, current_location, block, term,
                    cycle_count, should_continue, inst_size, pc, visited, set_term_calls,
                    mem_reads, cb_log, pass_runs, prev_block >>

\* The stack code of EmitTwoOpFallback.
TwoOpFallbackProgram(abi) ==
    LET shadow == ABI_SHADOW_SPACE(abi)
        stack_space == 2 * 16
    IN  <<sub_rsp(stack_space + shadow),
          lea_param(1, shadow + 0 * 16), lea_param(2, shadow + 1 * 16),
          store_param(2), CallFunction, load_result(shadow + 0 * 16),
          add_rsp(stack_space + shadow)>>

\* The stack code of EmitThreeOpFallback with the result reloaded from the first slot
\* on both layouts.
ThreeOpFallbackProgramFirstSlot(abi) ==
    LET shadow == ABI_SHADOW_SPACE(abi)
    IN  IF abi = "Windows"
        THEN <<sub_rsp(4 * 16 + shadow),
               lea_param(1, shadow + 1 * 16), lea_param(2, shadow + 2 * 16),
               lea_param(3, shadow + 3 * 16), store_rsp(shadow + 0, 8),
               store_param(2), store_param(3), CallFunction,
               load_result(shadow + 0 * 16), add_rsp(4 * 16 + shadow)>>
        ELSE <<sub_rsp(3 * 16 + shadow),
               lea_param(1, shadow + 0 * 16), lea_param(2, shadow + 1 * 16),
               lea_param(3, shadow + 2 * 16),
               store_param(2), store_param(3), CallFunction,
               load_result(shadow + 0 * 16), add_rsp(3 * 16 + shadow)>>

\* The stack code of EmitThreeOpFallback, under _WIN32 and otherwise.
ThreeOpFallbackProgram(abi) ==
    LET shadow == ABI_SHADOW_SPACE(abi)
    IN  IF abi = "Windows"
        THEN <<sub_rsp(4 * 16 + shadow),
               lea_param(1, shadow + 1 * 16), lea_param(2, shadow + 2 * 16),
               lea_param(3, shadow + 3 * 16), store_rsp(shadow + 0, 8),
               store_param(2), store_param(3), CallFunction,
               load_result(shadow + 1 * 16), add_rsp(4 * 16 + shadow)>>
        ELSE <<sub_rsp(3 * 16 + shadow),
               lea_param(1, shadow + 0 * 16), lea_param(2, shadow + 1 * 16),
               lea_param(3, shadow + 2 * 16),
               store_param(2), store_param(3), CallFunction,
               load_result(shadow + 0 * 16), add_rsp(3 * 16 + shadow)>>

\* The stack code of EmitFourOpFallback, under _WIN32 and otherwise.
FourOpFallbackProgram(abi) ==
    LET shadow == ABI_SHADOW_SPACE(abi)
    IN  IF abi = "Windows"
        THEN <<sub_rsp(5 * 16 + shadow),
               lea_param(1, shadow + 1 * 16), lea_param(2, shadow + 2 * 16),
               lea_param(3, shadow + 3 * 16), lea_param(4, shadow + 4 * 16),
               store_rsp(shadow + 0, 8), store_rsp(shadow + 8, 8),
               store_param(2), store_param(3), store_param(4), CallFunction,
               load_result(shadow + 1 * 16), add_rsp(5 * 16 + shadow)>>
        ELSE <<sub_rsp(4 * 16 + shadow),
               lea_param(1, shadow + 0 * 16), lea_param(2, shadow + 1 * 16),
               lea_param(3, shadow + 2 * 16), lea_param(4, shadow + 3 * 16),
               store_param(2), store_param(3), store_param(4), CallFunction,
               load_result(shadow + 0 * 16), add_rsp(4 * 16 + shadow)>>

\* What a fallback leaves: the stack code run, xmm0 reloaded with what the host
\* function wrote, DefineValue(inst, xmm0).
Fallback(program, result) ==
    x64' = [x64 EXCEPT !.stage = "defined",
                       !.result = result,
                       !.stack = StackRun(StackAtEntry, program, 1, x64.abi),
                       !.defines = x64.defines + 1,
                       !.defined_reg = "xmm0 after HostCall"]

\* The software functions of common/fp behind the fallbacks, element by element.
SoftwareResults(fsize) ==
    {Broadcast(fsize, One(fsize)), Broadcast(fsize, DefaultNaN(fsize))}

TwoOpFallbackOps == {"FPVectorRecipEstimate"}
ThreeOpFallbackOps == {"FPVectorRecipStepFused"}

EmitTwoOpFallback ==
    /\ pc = "emit"
    /\ x64.stage = "start"
    /\ x64.op \in TwoOpFallbackOps
    /\ \E result \in SoftwareResults(x64.fsize) :
         Fallback(TwoOpFallbackProgram(x64.abi), result)
    /\ UNCHANGED << mem, fill, read_only, ltr, descriptor, current_location, block, term,
                    cycle_count, should_continue, inst_size, pc, visited, set_term_calls,
                    mem_reads, cb_log, pass_runs, prev_block >>

EmitThreeOpFallback ==
    /\ pc = "emit"
    /\ x64.stage = "start"
    /\ x64.op \in ThreeOpFallbackOps
    /\ \E result \in SoftwareResults(x64.fsize) :
         Fallback(ThreeOpFallbackProgram(x64.abi), result)
    /\ UNCHANGED << mem, fill, read_only, ltr, descriptor, current_location, block, term,
                    cycle_count, should_continue, inst_size, pc, visited, set_term_calls,
                    mem_reads, cb_log, pass_runs, prev_block >>

\* EmitFPVectorMulAdd without FMA.
EmitFourOpFallback ==
    /\ pc = "emit"
    /\ x64.stage = "start"
    /\ x64.op \in FourOps
    /\ ~x64.FMA
    /\ \E result \in SoftwareResults(x64.fsize) :
         Fallback(FourOpFallbackProgram(x64.abi), result)
    /\ UNCHANGED << mem, fill, read_only, ltr, descriptor, current_location, block, term,
                    cycle_count, should_continue, inst_size, pc, visited, set_term_calls,
                    mem_reads, cb_log, pass_runs, prev_block >>

\* FP::RoundingMode
RoundingModes ==
    {"ToNearest_TieEven", "TowardsPlusInfinity", "TowardsMinusInfinity", "TowardsZero",
     "ToNearest_TieAwayFromZero"}

\* EmitFPVectorToFixed: with AVX and a rounding other than ties-away, scale, round,
\* the two masks, the two vandnp, return; else the function of the lookup table
\* through EmitTwoOpFallback.
EmitFPVectorToFixed ==
    /\ pc = "emit"
    /\ x64.stage = "start"
    /\ x64.op = "FPVectorToFixed"
    /\ IF x64.AVX /\ x64.rounding # "ToNearest_TieAwayFromZero"
       THEN LET f == ToFixedFastPath(x64.fsize, x64.unsigned_, x64.fbits, x64.rounding,
                                     x64.inputs[1])
            IN  x64' = [x64 EXCEPT !.stage = "returned",
                                   !.rounded = f.rounded,
                                   !.lower_limit_mask = f.lower_limit_mask,
                                   !.upper_limit_mask = f.upper_limit_mask,
                                   !.src = f.src]
       ELSE Fallback(TwoOpFallbackProgram(x64.abi),
                     ToFixedSoftware(x64.fsize, x64.unsigned_, x64.fbits, x64.rounding,
                                     x64.inputs[1]))
    /\ UNCHANGED << mem, fill, read_only, ltr, descriptor, current_location, block, term,
                    cycle_count, should_continue, inst_size, pc, visited, set_term_calls,
                    mem_reads, cb_log, pass_runs, prev_block >>

\* FPSCR.RMode
FPSCRRModes ==
    {"ToNearest_TieEven", "TowardsPlusInfinity", "TowardsMinusInfinity", "TowardsZero"}

\* EmitFPVectorU32ToSingle: vcvtudq2ps or the two-halves sequence, the sign mask,
\* DefineValue(inst, xmm).
EmitFPVectorU32ToSingle ==
    /\ pc = "emit"
    /\ x64.stage = "start"
    /\ x64.op = "FPVectorU32ToSingle"
    /\ LET seq == U32ToSingleSequence(x64.AVX, x64.FPSCR_RMode, x64.inputs[1])
           xmm == IF x64.AVX512 THEN vcvtudq2ps(x64.FPSCR_RMode, x64.inputs[1])
                  ELSE seq.value
           masked == SignMask(32, x64.FPSCR_RMode, xmm)
       IN  x64' = [x64 EXCEPT !.stage = "defined",
                              !.raw = xmm,
                              !.exact = x64.AVX512 \/ seq.exact,
                              !.sign_mask = masked.emitted,
                              !.result = masked.value,
                              !.defines = x64.defines + 1,
                              !.defined_reg = "UseScratchXmm"]
    /\ UNCHANGED << mem, fill, read_only, ltr, descriptor, current_location, block, term,
                    cycle_count, should_continue, inst_size, pc, visited, set_term_calls,
                    mem_reads, cb_log, pass_runs, prev_block >>

\* EmitFPVectorU64ToDouble: vcvtuqq2pd or the unpack, subtract and add sequence,
\* the sign mask, DefineValue(inst, xmm).
EmitFPVectorU64ToDouble ==
    /\ pc = "emit"
    /\ x64.stage = "start"
    /\ x64.op = "FPVectorU64ToDouble"
    /\ LET xmm == IF x64.AVX512 THEN vcvtuqq2pd(x64.FPSCR_RMode, x64.inputs[1])
                  ELSE U64ToDoubleSequence(x64.FPSCR_RMode, x64.inputs[1])
           masked == SignMask(64, x64.FPSCR_RMode, xmm)
       IN  x64' = [x64 EXCEPT !.stage = "defined",
                              !.raw = xmm,
                              !.exact = TRUE,
                              !.sign_mask = masked.emitted,
                              !.result = masked.value,
                              !.defines = x64.defines + 1,
                              !.defined_reg = "UseScratchXmm"]
    /\ UNCHANGED << mem, fill, read_only, ltr, descriptor, current_location, block, term,
                    cycle_count, should_continue, inst_size, pc, visited, set_term_calls,
                    mem_reads, cb_log, pass_runs, prev_block >>

FSizes == {32, 64}

\* The emitter's state before the instruction is emitted, with the fields in
\* over replacing the defaults.
Start(over) ==
    LET default ==
            [stage |-> "start", op |-> "", fsize |-> 32,
             FPSCR_DN |-> FALSE, AccurateNaN |-> FALSE, FPSCR_RMode |-> "ToNearest_TieEven",
             SSE41 |-> FALSE, AVX |-> FALSE, FMA |-> FALSE, AVX512 |-> FALSE,
             abi |-> "SysV", unsigned_ |-> FALSE, fbits |-> 0,
             rounding |-> "ToNearest_TieEven",
             inputs |-> <<>>, raw |-> <<>>, nan_mask |-> <<>>, result |-> <<>>,
             far |-> FALSE, defines |-> 0, defined_reg |-> "", stack |-> StackAtEntry,
             rounded |-> <<>>, lower_limit_mask |-> <<>>, upper_limit_mask |-> <<>>,
             src |-> <<>>, exact |-> FALSE, sign_mask |-> FALSE]
    IN  [f \in DOMAIN default |-> IF f \in DOMAIN over THEN over[f] ELSE default[f]]

\* The operations with NaN handling, on every path and host.
StartNaNOps ==
    \E op \in ThreeOps \cup PairedOps \cup FourOps, fsize \in FSizes, abi \in ABIs,
       dn \in BOOLEAN, accurate \in BOOLEAN, sse41 \in BOOLEAN, avx \in BOOLEAN :
         /\ avx => sse41
         /\ \E a \in OperandPool(fsize), b \in OperandPool(fsize),
               c \in ThirdOperandPool(fsize) :
              x64 = Start([op |-> op, fsize |-> fsize, abi |-> abi,
                           FPSCR_DN |-> dn, AccurateNaN |-> accurate,
                           SSE41 |-> sse41, AVX |-> avx, FMA |-> op \in FourOps,
                           inputs |-> IF op \in FourOps THEN <<a, b, c>> ELSE <<a, b>>])

\* The operations that go to a host function.
StartFallbacks ==
    \E op \in TwoOpFallbackOps \cup ThreeOpFallbackOps \cup FourOps,
       fsize \in FSizes, abi \in ABIs :
         \E a \in OperandPool(fsize), b \in OperandPool(fsize),
            c \in ThirdOperandPool(fsize) :
              x64 = Start([op |-> op, fsize |-> fsize, abi |-> abi,
                           inputs |-> IF op \in TwoOpFallbackOps THEN <<a>>
                                      ELSE IF op \in ThreeOpFallbackOps THEN <<a, b>>
                                      ELSE <<a, b, c>>])

\* The operands of FP-to-fixed: infinities, a NaN, the limits and values around
\* them, and values within them.
ToFixedPool(fsize) ==
    LET R(w, x, y, z, keep) == Register(fsize, <<w, x, y, z>>, keep)
        upper_s == fp_upper_limit(fsize, FALSE)
        upper_u == fp_upper_limit(fsize, TRUE)
        lower_s == fp_lower_limit(fsize, FALSE)
        below == Float(fsize, \hCF80, \hC3F0, 0)
        minus_inf == Float(fsize, \hFF80, \hFFF0, 0)
        minus_one == Float(fsize, \hBF80, \hBFF0, 0)
        one_and_half == Float(fsize, \h3FC0, \h3FF8, 0)
        half == Float(fsize, \h3F00, \h3FE0, 0)
    IN  { R(PlusInf(fsize), minus_inf, qNaN_a(fsize), One(fsize), <<1, 2>>),
          R(PlusInf(fsize), minus_inf, qNaN_a(fsize), One(fsize), <<3, 4>>),
          R(upper_s, upper_u, lower_s, below, <<1, 3>>),
          R(upper_s, upper_u, lower_s, below, <<2, 4>>),
          R(one_and_half, minus_one, PlusZero(fsize), half, <<1, 2>>),
          R(one_and_half, minus_one, PlusZero(fsize), half, <<3, 4>>) }

FBitsPool == {0, 1}

StartToFixed ==
    \E fsize \in FSizes, unsigned_ \in BOOLEAN, avx \in BOOLEAN, abi \in ABIs,
       rounding \in RoundingModes, fbits \in FBitsPool :
         \E a \in ToFixedPool(fsize) :
              x64 = Start([op |-> "FPVectorToFixed", fsize |-> fsize, abi |-> abi,
                           unsigned_ |-> unsigned_, AVX |-> avx, SSE41 |-> avx,
                           rounding |-> rounding, fbits |-> fbits, inputs |-> <<a>>])

\* Unsigned 32-bit operands: upper and lower halves around the places where
\* the conversion rounds, and the vector {0, 1, 0x7FFFFFFF, 0xFFFFFFFF}.
UpperHalves == {0, 1, \h00FF, \h0100, \h7FFF, \h8000, \hFFFF}
LowerHalfPairs ==
    {<<0, 1>>, <<\h007F, \h0080>>, <<\h0081, \h0180>>, <<\h8000, \hFFFF>>}

U32Pool ==
    {<< <<h, l[1]>>, <<h, l[2]>>, <<g, l[1]>>, <<g, l[2]>> >> :
        h \in UpperHalves, g \in UpperHalves, l \in LowerHalfPairs}
    \cup {<< <<0, 0>>, <<0, 1>>, <<\h7FFF, \hFFFF>>, <<\hFFFF, \hFFFF>> >>}

\* Unsigned 64-bit operands: 0, 1, powers of two, and values that do not fit
\* the 53 bits of a double.
U64Lanes ==
    {<<0, 0, 0, 0>>, <<0, 0, 0, 1>>, <<0, 0, 1, 0>>, <<0, 1, 0, 0>>, <<\h8000, 0, 0, 0>>,
     <<0, \h0020, 0, 1>>, <<\hFFFF, \hFFFF, \hFFFF, \hF800>>,
     <<\hFFFF, \hFFFF, \hFFFF, \hFFFF>>}

U64Pool == {<<a, b>> : a \in U64Lanes, b \in U64Lanes}

StartFromUnsigned ==
    \E fsize \in FSizes, avx512 \in BOOLEAN, avx \in BOOLEAN, rmode \in FPSCRRModes :
        /\ avx512 => avx
        /\ \E a \in (IF fsize = 32 THEN U32Pool ELSE U64Pool) :
             x64 = Start([op |-> IF fsize = 32 THEN "FPVectorU32ToSingle"
                                 ELSE "FPVectorU64ToDouble",
                          fsize |-> fsize, AVX512 |-> avx512, AVX |-> avx, SSE41 |-> avx,
                          FPSCR_RMode |-> rmode, inputs |-> <<a>>])

InitVec ==
    /\ StartNaNOps \/ StartFallbacks \/ StartToFixed \/ StartFromUnsigned
    /\ block = <<>>
    /\ fill = Zero32
    /\ mem = BuildImage(Zero32, <<>>, fill)
    /\ read_only = {}
    /\ ltr = TRUE
    /\ descriptor = Zero32
    /\ current_location = Zero32
    /\ term = ReturnToDispatch
    /\ cycle_count = 0
    /\ should_continue = FALSE
    /\ inst_size = "Thumb16"
    /\ pc = "emit"
    /\ visited = <<>>
    /\ set_term_calls = 1
    /\ mem_reads = <<>>
    /\ cb_log = <<>>
    /\ pass_runs = 0
    /\ prev_block = <<>>

NextVec ==
    \/ EmitThreeOpVectorOperation
    \/ EmitFourOpVectorOperation
    \/ HandleNaNs
    \/ EmitTwoOpFallback
    \/ EmitThreeOpFallback
    \/ EmitFourOpFallback
    \/ EmitFPVectorToFixed
    \/ EmitFPVectorU32ToSingle
    \/ EmitFPVectorU64ToDouble

SpecVec == InitVec /\ [][NextVec]_vars

(***************************************************************************)
(* Properties.                                                             *)
(***************************************************************************)
\* The record of the guest instruction translated last.
Last == visited[Len(visited)]

\* The first halfword of a translated guest instruction.
FirstHalf(rec) == IF rec.size = "Thumb16" THEN rec.inst.lo ELSE rec.inst.hi

LinkBlock(loc) == [kind |-> "LinkBlock", arm_pc |-> loc]

\* C1: every visitor call that returns stop has called SetTerm exactly once and
\* every call that returns continue has not called it, so the block TranslateThumb
\* returns has had its terminator set exactly once, by its last instruction.
\* (Stated for the calls that did not pass over a failed assertion.)
C1_TerminatorSetOnceByLastInstruction ==
    /\ \A k \in 1..Len(visited) :
          ~visited[k].asserted =>
              /\ ~visited[k].ret => Len(visited[k].terms) = 1
              /\ visited[k].ret => visited[k].terms = <<>>
    /\ (pc = "done" /\ ~Last.asserted) =>
          /\ set_term_calls = 1
          /\ term # NoTerm
          /\ Len(Last.terms) = 1

\* C2: an instruction is classified Thumb-32 iff the top five bits of its first
\* halfword are 0b11101, 0b11110 or 0b11111, and a Thumb-16 instruction is fetched
\* with a single memory read.
C2_Thumb32IffTopFiveBits ==
    \A k \in 1..Len(visited) :
        /\ visited[k].size = "Thumb32" <=> (FirstHalf(visited[k]) \div 2048) \in {29, 30, 31}
        /\ visited[k].size = "Thumb16" => Len(visited[k].reads) = 1

\* C3: an instruction the translator cannot translate (classified Thumb-32, matched
\* by no decoder entry, or UDF) is the last of its block, and from its visit on the
\* terminator is Interpret at the address of that instruction, also after the
\* location has been advanced past it.
C3_InterpretAtThisInstruction ==
    \A k \in 1..Len(visited) :
        visited[k].handler \in {"InterpretThisInstruction", "thumb16_UDF"} =>
            /\ k = Len(visited)
            /\ ~visited[k].ret
            /\ visited[k].terms = <<Interpret(visited[k].arm_pc)>>
            /\ term = Interpret(visited[k].arm_pc)
            /\ set_term_calls = 1

\* A Thumb-32 instruction after one translated instruction ended the block, the
\* location has been advanced by 4 and the terminator still names the instruction.
C3_Witness ==
    /\ pc = "done"
    /\ Len(visited) = 2
    /\ Last.size = "Thumb32"
    /\ term = Interpret(Last.arm_pc)
    /\ current_location = Plus(Last.arm_pc, 4)
    /\ current_location # term.arm_pc

\* The encodings the visitors treat as unpredictable.
IsUnpredictable(rec) ==
    LET h == rec.inst.lo
        r == IF Bits(h, 7, 7) = 1 THEN Bits(h, 2, 0) + 8 ELSE Bits(h, 2, 0)
        m == Bits(h, 6, 3)
    IN  \/ rec.handler = "thumb16_ADD_reg_t2" /\ r = 15 /\ m = 15
        \/ rec.handler = "thumb16_CMP_reg_t2" /\ ((r < 8 /\ m < 8) \/ r = 15 \/ m = 15)

\* C4: for an unpredictable encoding the visitor appends no IR and translation
\* stops there; the block ends in Interpret at that instruction or the process
\* has aborted on the assertion.
C4_UnpredictableInterpretsOrAborts ==
    \A k \in 1..Len(visited) :
        IsUnpredictable(visited[k]) =>
            /\ visited[k].insts = <<>>
            /\ k = Len(visited)
            /\ pc = "aborted" \/ term = Interpret(visited[k].arm_pc)

\* The IR the visitor appends for MOVS R0, #0x42 when the block holds n instructions.
MovsR0Emission(n) ==
    << Inst("A32SetRegister", <<RegRef(0), Imm32(U32(0, \h42))>>),
       Inst("MostSignificantBit", <<Imm32(U32(0, \h42))>>),
       Inst("A32SetNFlag", <<Ref(n + 2)>>),
       Inst("IsZero", <<Imm32(U32(0, \h42))>>),
       Inst("A32SetZFlag", <<Ref(n + 4)>> ) >>

\* C5 as stated: the block translated from MOVS R0, #0x42 at 0x1000 is
\* SetRegister(R0, 0x42), SetNFlag(0), SetZFlag(0) with terminator LinkBlock(0x1002),
\* whatever follows in guest memory.
C5_MovsEndsBlockWithLinkBlock ==
    (pc = "done" /\ descriptor = U32(0, \h1000) /\ visited[1].inst = U32(0, \h2042)) =>
        /\ Len(visited) = 1
        /\ term = LinkBlock(U32(0, \h1002))
        /\ block = << Inst("A32SetRegister", <<RegRef(0), Imm32(U32(0, \h42))>>),
                      Inst("A32SetNFlag", <<Imm1(0)>>),
                      Inst("A32SetZFlag", <<Imm1(0)>>) >>

\* C5 amended: MOVS R0, #0x42 at 0x1000 appends SetRegister(R0, 0x42),
\* SetNFlag(MostSignificantBit(0x42)), SetZFlag(IsZero(0x42)), sets no terminator
\* and returns continue; translation goes on at 0x1002, and the terminator of the
\* returned block is the one a later instruction set (Interpret or
\* ReturnToDispatch, or none), never LinkBlock.
C5_MovsContinuesAt1002 ==
    \A k \in 1..Len(visited) :
        (visited[k].inst = U32(0, \h2042) /\ visited[k].arm_pc = U32(0, \h1000)) =>
            /\ visited[k].handler = "thumb16_MOV_imm"
            /\ visited[k].insts = MovsR0Emission(visited[k].from)
            /\ visited[k].ret
            /\ visited[k].terms = <<>>
            /\ pc = "done" =>
                  /\ Len(visited) > k
                  /\ visited[k + 1].arm_pc = U32(0, \h1002)
                  /\ term = SetTerm(NoTerm, Last.terms)
                  /\ term.kind \in {"Interpret", "ReturnToDispatch", "Invalid"}

\* MOVS R0, #0x42 at 0x1000 followed by MOV PC, R1: the block was returned with
\* the terminator ReturnToDispatch set by the second instruction.
C5_Witness ==
    /\ pc = "done"
    /\ descriptor = U32(0, \h1000)
    /\ Len(visited) = 2
    /\ visited[1].inst = U32(0, \h2042)
    /\ visited[2].inst = U32(0, \h468F)
    /\ term = ReturnToDispatch
    /\ SubSeq(block, 1, 5) = MovsR0Emission(0)

\* The visitor's destination register is the PC (ADD Rdn, Rm T2 and MOV Rd, Rm).
WritesPC(rec) ==
    /\ rec.handler \in {"thumb16_ADD_reg_t2", "thumb16_MOV_reg"}
    /\ Bits(rec.inst.lo, 7, 7) = 1
    /\ Bits(rec.inst.lo, 2, 0) = 7

\* The block holds no SetRegister with R15 as destination.
NoSetRegisterPC ==
    \A i \in 1..Len(block) :
        ~(block[i].op = "A32SetRegister" /\ block[i].args[1] = RegRef(15))

\* The visit rec ended with ALUWritePC of its result, ReturnToDispatch and stop.
EndsWithALUWritePC(rec) ==
    /\ rec.insts # <<>>
    /\ rec.insts[Len(rec.insts)].op = "A32ALUWritePC"
    /\ rec.insts[Len(rec.insts)].args =
          <<Ref(IF rec.handler = "thumb16_MOV_reg" THEN rec.to - 1 ELSE rec.to - 3)>>
    /\ rec.insts[IF rec.handler = "thumb16_MOV_reg" THEN Len(rec.insts) - 1
                 ELSE Len(rec.insts) - 3].op
          = (IF rec.handler = "thumb16_MOV_reg" THEN "A32GetRegister" ELSE "AddWithCarry")
    /\ rec.terms = <<ReturnToDispatch>>
    /\ ~rec.ret

\* C6 as stated: no visitor emits SetRegister to R15, and whenever the destination
\* register of ADD Rdn, Rm (T2) or MOV Rd, Rm is the PC the visitor emits ALUWritePC
\* of the result, sets the terminator ReturnToDispatch and returns stop.
C6_EveryPCWriteIsALUWritePC ==
    /\ NoSetRegisterPC
    /\ \A k \in 1..Len(visited) : WritesPC(visited[k]) => EndsWithALUWritePC(visited[k])

\* C6 amended: as stated, except for ADD PC, PC (Rdn = Rm = PC), which the visitor
\* hands to UnpredictableInstruction: no IR is appended for it, so no PC write.
C6_PCWriteIsALUWritePCUnlessUnpredictable ==
    /\ NoSetRegisterPC
    /\ \A k \in 1..Len(visited) :
          WritesPC(visited[k]) =>
              IF IsUnpredictable(visited[k])
              THEN visited[k].insts = <<>> /\ visited[k].asserted
              ELSE /\ EndsWithALUWritePC(visited[k])
                   /\ k = Len(visited)
                   /\ term = ReturnToDispatch

\* ADD PC, R1 was translated and its block returned.
C6_Witness ==
    /\ pc = "done"
    /\ Last.inst = U32(0, \h448F)
    /\ EndsWithALUWritePC(Last)
    /\ term = ReturnToDispatch
    /\ block[Len(block)].op = "A32ALUWritePC"

\* The shift instruction a shift-immediate visitor emitted.
ShiftInst(rec) == rec.insts[3]

\* C7: LSR (imm) and ASR (imm) pass imm5 for imm5 in 1..31 and 32 for imm5 = 0 as
\* the shift amount, never 0; LSL (imm) passes imm5 unchanged.
C7_ShiftImmediateZeroIs32 ==
    \A k \in 1..Len(visited) :
        LET rec == visited[k]
            imm5 == Bits(rec.inst.lo, 10, 6)
        IN  /\ rec.handler = "thumb16_LSR_imm" =>
                  /\ ShiftInst(rec).op = "LogicalShiftRight"
                  /\ ShiftInst(rec).args[2] = Imm8(IF imm5 = 0 THEN 32 ELSE imm5)
                  /\ ShiftInst(rec).args[2] # Imm8(0)
            /\ rec.handler = "thumb16_ASR_imm" =>
                  /\ ShiftInst(rec).op = "ArithmeticShiftRight"
                  /\ ShiftInst(rec).args[2] = Imm8(IF imm5 = 0 THEN 32 ELSE imm5)
                  /\ ShiftInst(rec).args[2] # Imm8(0)
            /\ rec.handler = "thumb16_LSL_imm" =>
                  /\ ShiftInst(rec).op = "LogicalShiftLeft"
                  /\ ShiftInst(rec).args[2] = Imm8(imm5)

\* LSR R1, R2, #0 (0x0811) was translated with the shift amount 32.
C7_Witness ==
    /\ pc = "done"
    /\ \E k \in 1..Len(visited) :
          /\ visited[k].inst = U32(0, \h0811)
          /\ visited[k].handler = "thumb16_LSR_imm"
          /\ ShiftInst(visited[k]).args[2] = Imm8(32)

\* The callbacks one run of the pass makes on instructions i.. of blk, given the
\* operands the instructions have when the pass reaches them.
RECURSIVE ExpectedLog(_, _)
ExpectedLog(blk, i) ==
    IF i > Len(blk) THEN <<>>
    ELSE LET a == IF blk[i].args = <<>> THEN Imm1(0) ELSE blk[i].args[1]
             fn == CASE blk[i].op = "A32ReadMemory8" -> "MemoryRead8"
                     [] blk[i].op = "A32ReadMemory16" -> "MemoryRead16"
                     [] blk[i].op = "A32ReadMemory32" -> "MemoryRead32"
                     [] OTHER -> "MemoryRead64"
             here == IF blk[i].op \in ReadMemoryOps /\ IsImmediate(a)
                     THEN IF a.v \in read_only
                          THEN <<Called("IsReadOnlyMemory", a.v), Called(fn, a.v)>>
                          ELSE <<Called("IsReadOnlyMemory", a.v)>>
                     ELSE <<>>
         IN  here \o ExpectedLog(blk, i + 1)

\* Every operand that referred to instruction i before the run still does.
UsesKept(i) ==
    \A j \in 1..Len(block) : \A k \in 1..Len(prev_block[j].args) :
        prev_block[j].args[k] = Ref(i) => block[j].args[k] = Ref(i)

\* C8: in a run of the pass every MemoryReadN call directly follows an
\* IsReadOnlyMemory query of the same address that answered true, and the calls
\* made are exactly those of the ReadMemory instructions whose address operand is
\* an immediate when the pass reaches them; a ReadMemory instruction whose address
\* is not an immediate or not read-only keeps its opcode and all its uses, and one
\* whose address is an immediate read-only address has no use left.
C8_FoldsOnlyReadOnlyImmediateReads ==
    pass_runs >= 1 =>
        /\ Len(block) = Len(prev_block)
        /\ cb_log = ExpectedLog(block, 1)
        /\ \A n \in 1..Len(cb_log) :
              cb_log[n].fn # "IsReadOnlyMemory" =>
                  /\ n > 1
                  /\ cb_log[n - 1] = Called("IsReadOnlyMemory", cb_log[n].vaddr)
                  /\ cb_log[n].vaddr \in read_only
        /\ \A i \in 1..Len(block) :
              prev_block[i].op \in ReadMemoryOps =>
                  /\ block[i].op = prev_block[i].op
                  /\ IF IsImmediate(block[i].args[1]) /\ block[i].args[1].v \in read_only
                     THEN UseCount(block, i) = 0
                     ELSE UsesKept(i)

\* One run folded the read at the read-only 0x1008 into the address of a second
\* read, asked about that address (0xDEADBEEF, not read-only), made no read
\* there and left the use of the second read in place.
C8_Witness ==
    /\ pass_runs = 1
    /\ Len(block) = 3
    /\ prev_block[2] = Inst("A32ReadMemory32", <<Ref(1)>>)
    /\ block[2] = Inst("A32ReadMemory32", <<Imm32(U32(\hDEAD, \hBEEF))>>)
    /\ block[3] = Inst("A32SetRegister", <<RegRef(0), Ref(2)>>)
    /\ cb_log = << Called("IsReadOnlyMemory", U32(0, \h1008)),
                   Called("MemoryRead32", U32(0, \h1008)),
                   Called("IsReadOnlyMemory", U32(\hDEAD, \hBEEF)) >>

\* The address LDR Rt, [PC, #imm8*4] at rec.arm_pc reads.
LiteralAddress(rec) ==
    Add32(AlignDown4(Add32(rec.arm_pc, U32(0, 4))), U32(0, 4 * Bits(rec.inst.lo, 7, 0)))

\* C9: LDR Rt, [PC, #imm8*4] at p emits ReadMemory32 at the immediate address
\* ((p + 4) & ~3) + 4*imm8 (mod 2^32) and SetRegister(Rt) of its result; after a
\* run of the pass, when that address is read-only, the operand of SetRegister(Rt)
\* is the immediate MemoryRead32 returns for it and the read has no use left, and
\* otherwise SetRegister(Rt) still takes the result of the read.  For p = 0x1000,
\* imm8 = 1 and 0xDEADBEEF at the read-only 0x1008: SetRegister(R1, 0xDEADBEEF).
C9_LiteralLoadFolded ==
    \A k \in 1..Len(visited) :
        LET rec == visited[k]
            t == Bits(rec.inst.lo, 10, 8)
            a == LiteralAddress(rec)
        IN  rec.handler = "thumb16_LDR_literal" =>
              /\ rec.insts = << Inst("A32ReadMemory32", <<Imm32(a)>>),
                                Inst("A32SetRegister", <<RegRef(t), Ref(rec.from + 1)>>) >>
              /\ rec.ret
              /\ block[rec.from + 1] = Inst("A32ReadMemory32", <<Imm32(a)>>)
              /\ pass_runs >= 1 =>
                    IF IsReadOnlyMemory(a)
                    THEN /\ block[rec.from + 2] =
                               Inst("A32SetRegister", <<RegRef(t), Imm32(MemoryRead32(a))>>)
                         /\ UseCount(block, rec.from + 1) = 0
                    ELSE block[rec.from + 2] =
                               Inst("A32SetRegister", <<RegRef(t), Ref(rec.from + 1)>>)
              /\ (rec.arm_pc = U32(0, \h1000) /\ rec.inst.lo = \h4901 /\ pass_runs >= 1
                    /\ IsReadOnlyMemory(U32(0, \h1008))
                    /\ MemoryRead32(U32(0, \h1008)) = U32(\hDEAD, \hBEEF)) =>
                    block[rec.from + 2] =
                        Inst("A32SetRegister", <<RegRef(1), Imm32(U32(\hDEAD, \hBEEF))>>)

\* LDR R1, [PC, #4] at 0x1002 reads at 0x1008 (the PC is aligned down), which is
\* read-only and holds 0xDEADBEEF, and the pass has folded the read.
C9_Witness ==
    /\ pass_runs = 1
    /\ descriptor = U32(0, \h1002)
    /\ visited[1].inst.lo = \h4901
    /\ U32(0, \h1008) \in read_only
    /\ prev_block[2] = Inst("A32SetRegister", <<RegRef(1), Ref(1)>>)
    /\ block[1] = Inst("A32ReadMemory32", <<Imm32(U32(0, \h1008))>>)
    /\ block[2] = Inst("A32SetRegister", <<RegRef(1), Imm32(U32(\hDEAD, \hBEEF))>>)
    /\ UseCount(block, 1) = 0

\* C10: a second run of the pass, with the same callback answers, leaves the
\* block as the first run produced it: same instructions, same operands, same
\* invalidated instructions.
C10_PassIdempotent ==
    pass_runs >= 2 => block = prev_block

\* After two runs: the first run folded a read whose result was the address of a
\* second read, folded that one too, and the block holds both immediates.
C10_Witness ==
    /\ pass_runs = 2
    /\ Len(block) = 3
    /\ block = prev_block
    /\ block[1] = Inst("A32ReadMemory32", <<Imm32(U32(0, \h1008))>>)
    /\ block[2] = Inst("A32ReadMemory32", <<Imm32(U32(0, \h1008))>>)
    /\ block[3] = Inst("A32SetRegister", <<RegRef(0), Imm32(U32(0, \h1008))>>)
    /\ cb_log # <<>>

\* Instruction i of blk sets flag F to the result of a get of the same flag.
SetsFlagFromGet(blk, i, F) ==
    /\ blk[i].op = SetFlagOp(F)
    /\ ~IsImmediate(blk[i].args[1])
    /\ blk[blk[i].args[1].ref].op = GetFlagOp(F)

\* C11: for each flag F of N, Z, C and V, a run of the pass invalidates every
\* SetFFlag instruction whose operand is the result of a GetFFlag instruction.
C11_EveryFlagSetOfGetInvalidated ==
    pass_runs >= 1 =>
        \A i \in 1..Len(prev_block) : \A F \in Flags :
            SetsFlagFromGet(prev_block, i, F) => block[i] = Inst("Void", <<>>)

\* C12: a run of the pass invalidates an instruction only if it is a SetCFlag
\* whose operand is the result of a GetCFlag; a SetCFlag of an immediate or of a
\* value defined by another opcode (a carry-out among them) is left as it was,
\* and so is every other instruction that is not a use of a folded read.
C12_OnlySetCOfGetCInvalidated ==
    pass_runs >= 1 =>
        /\ Len(block) = Len(prev_block)
        /\ \A i \in 1..Len(prev_block) :
              /\ (block[i].op = "Void" /\ prev_block[i].op # "Void") =>
                     SetsFlagFromGet(prev_block, i, "C")
              /\ (prev_block[i].op = "A32SetCFlag" /\ ~SetsFlagFromGet(prev_block, i, "C")) =>
                     block[i] = prev_block[i]
              /\ block[i].op \in {"Void", prev_block[i].op}

\* A run of the pass was given SetCFlag of the carry of an addition and left the
\* block as it was.
C12_Witness ==
    /\ pass_runs = 1
    /\ prev_block = << Inst("AddWithCarry", <<Imm32(U32(0, 1)), Imm32(U32(0, 1)), Imm1(0)>>),
                       Inst("GetCarryFromOp", <<Ref(1)>>),
                       Inst("A32SetCFlag", <<Ref(2)>>) >>
    /\ block = prev_block

\* The 4-byte-aligned address of the word that covers address a.
Covering(a) == U32(a.hi, a.lo - (a.lo % 4))

\* The halfword of guest memory at the halfword-aligned address a: bits 31..16 of
\* the covering word when a mod 4 = 2, bits 15..0 otherwise.
GuestHalf(a) ==
    IF a.lo % 4 = 2 THEN GuestWord(Covering(a)).hi ELSE GuestWord(Covering(a)).lo

FlagsSet(rec) ==
    {F \in Flags : \E i \in 1..Len(rec.insts) : rec.insts[i].op = SetFlagOp(F)}

\* The number of flag-set instructions the visit rec appended.
FlagSetCount(rec) ==
    Cardinality({i \in 1..Len(rec.insts) : \E F \in Flags : rec.insts[i].op = SetFlagOp(F)})

NoFlagHandlers ==
    {"thumb16_ADD_reg_t2", "thumb16_MOV_reg", "thumb16_LDR_literal", "thumb16_LDR_imm_t1",
     "thumb16_STR_reg", "thumb16_STRH_reg", "thumb16_STRB_reg", "thumb16_ADR",
     "thumb16_ADD_sp_t1", "thumb16_ADD_sp_t2", "thumb16_SUB_sp",
     "thumb16_SXTH", "thumb16_SXTB", "thumb16_UXTH", "thumb16_UXTB",
     "thumb16_REV", "thumb16_REV16", "thumb16_REVSH", "thumb16_SVC",
     "thumb16_UDF", "InterpretThisInstruction"}

NZHandlers ==
    {"thumb16_MOV_imm", "thumb16_AND_reg", "thumb16_EOR_reg", "thumb16_ORR_reg",
     "thumb16_BIC_reg", "thumb16_MVN_reg", "thumb16_TST_reg"}

NZCHandlers ==
    {"thumb16_LSL_imm", "thumb16_LSR_imm", "thumb16_ASR_imm", "thumb16_LSL_reg",
     "thumb16_LSR_reg", "thumb16_ASR_reg", "thumb16_ROR_reg"}

NZCVHandlers ==
    {"thumb16_ADD_reg_t1", "thumb16_SUB_reg", "thumb16_ADD_imm_t1", "thumb16_SUB_imm_t1",
     "thumb16_CMP_imm", "thumb16_ADD_imm_t2", "thumb16_SUB_imm_t2", "thumb16_ADC_reg",
     "thumb16_SBC_reg", "thumb16_RSB_imm", "thumb16_CMP_reg_t1", "thumb16_CMN_reg",
     "thumb16_CMP_reg_t2"}

\* The flags the instruction of the visit rec updates; an unpredictable encoding
\* updates none.
FlagsUpdated(rec) ==
    CASE IsUnpredictable(rec) -> {}
      [] rec.handler \in NZHandlers -> {"N", "Z"}
      [] rec.handler \in NZCHandlers -> {"N", "Z", "C"}
      [] rec.handler \in NZCVHandlers -> {"N", "Z", "C", "V"}
      [] OTHER -> {}

\* C14: every visitor appends flag-set IR for exactly the flags its instruction
\* updates, one instruction per flag: none for ADD Rdn,Rm (T2), MOV Rd,Rm, the
\* loads and stores, ADR, ADD/SUB SP, the extensions, the byte reversals and SVC;
\* N and Z for MOVS imm, ANDS, EORS, ORRS, BICS, MVNS and TST; N, Z and C for the
\* shifts and rotates; N, Z, C and V for the add, subtract, compare, negate and
\* carry visitors (an unpredictable encoding appends nothing).
C14_FlagSetsMatchInstruction ==
    \A k \in 1..Len(visited) :
        /\ visited[k].handler \in NoFlagHandlers \cup NZHandlers \cup NZCHandlers \cup NZCVHandlers
        /\ FlagsSet(visited[k]) = FlagsUpdated(visited[k])
        /\ FlagSetCount(visited[k]) = Cardinality(FlagsUpdated(visited[k]))

\* MOVS R0, #0x42 set N and Z and the CMP R0, R9 (T2) after it set N, Z, C and V.
C14_Witness ==
    /\ pc = "done"
    /\ Len(visited) >= 2
    /\ visited[1].handler = "thumb16_MOV_imm"
    /\ FlagsSet(visited[1]) = {"N", "Z"}
    /\ visited[2].inst = U32(0, \h4548)
    /\ visited[2].handler = "thumb16_CMP_reg_t2"
    /\ FlagsSet(visited[2]) = {"N", "Z", "C", "V"}

\* The visitors whose instruction writes no general register.
NoWriteHandlers ==
    {"thumb16_CMP_imm", "thumb16_TST_reg", "thumb16_CMP_reg_t1", "thumb16_CMN_reg",
     "thumb16_CMP_reg_t2", "thumb16_STR_reg", "thumb16_STRH_reg", "thumb16_STRB_reg",
     "thumb16_UDF", "thumb16_SVC", "InterpretThisInstruction"}

\* The register the instruction of the visit rec writes.
Dest(rec) ==
    LET h == rec.inst.lo
    IN  CASE rec.handler \in {"thumb16_MOV_imm", "thumb16_ADD_imm_t2", "thumb16_SUB_imm_t2",
                              "thumb16_LDR_literal", "thumb16_ADR", "thumb16_ADD_sp_t1"}
                 -> Bits(h, 10, 8)
          [] rec.handler \in {"thumb16_ADD_sp_t2", "thumb16_SUB_sp"} -> 13
          [] rec.handler \in {"thumb16_ADD_reg_t2", "thumb16_MOV_reg"}
                 -> 8 * Bits(h, 7, 7) + Bits(h, 2, 0)
          [] OTHER -> Bits(h, 2, 0)

\* The instruction of the visit rec writes a general register other than the PC.
WritesRegister(rec) ==
    /\ rec.handler \notin NoWriteHandlers
    /\ ~IsUnpredictable(rec)
    /\ Dest(rec) # 15

\* The positions of the SetRegister instructions in the emission of rec.
SetRegisterAt(rec) == {i \in 1..Len(rec.insts) : rec.insts[i].op = "A32SetRegister"}

FlagTailOps ==
    {"MostSignificantBit", "IsZero", "A32SetNFlag", "A32SetZFlag", "A32SetCFlag", "A32SetVFlag"}

\* C15 as stated: for every instruction that writes a general register R other
\* than the PC, SetRegister(R, ...) is the last IR instruction the visitor appends.
C15_SetRegisterIsLast ==
    \A k \in 1..Len(visited) :
        WritesRegister(visited[k]) =>
            /\ visited[k].insts # <<>>
            /\ visited[k].insts[Len(visited[k].insts)].op = "A32SetRegister"
            /\ visited[k].insts[Len(visited[k].insts)].args[1] = RegRef(Dest(visited[k]))

\* C15 amended: for every instruction that writes a general register R other than
\* the PC the visitor appends exactly one SetRegister, it is SetRegister(R, ...),
\* and what follows it is only the computation and setting of the flags the
\* instruction updates; when the instruction updates no flag SetRegister is the
\* last instruction appended.  A visitor of an instruction that writes no
\* register appends no SetRegister.
C15_SetRegisterThenOnlyFlags ==
    \A k \in 1..Len(visited) :
        LET rec == visited[k]
        IN  /\ WritesRegister(rec) =>
                  /\ Cardinality(SetRegisterAt(rec)) = 1
                  /\ \A s \in SetRegisterAt(rec) :
                        /\ rec.insts[s].args[1] = RegRef(Dest(rec))
                        /\ \A i \in (s + 1)..Len(rec.insts) : rec.insts[i].op \in FlagTailOps
                        /\ FlagsUpdated(rec) = {} => s = Len(rec.insts)
                        /\ FlagsUpdated(rec) # {} => s < Len(rec.insts)
            /\ rec.handler \in NoWriteHandlers => SetRegisterAt(rec) = {}

\* LSLS R0, R0, #0 was translated: SetRegister(R0) is the fifth of the ten
\* instructions appended, and the five after it compute and set N, Z and C.
C15_Witness ==
    /\ pc = "done"
    /\ \E k \in 1..Len(visited) :
          /\ visited[k].handler = "thumb16_LSL_imm"
          /\ WritesRegister(visited[k])
          /\ SetRegisterAt(visited[k]) = {5}
          /\ Len(visited[k].insts) = 10
          /\ visited[k].insts[10].op = "A32SetCFlag"

\* C16: when TranslateThumb returns, cycle_count is the number of guest
\* instructions fetched, the stopping one (an Interpret or an unpredictable stop
\* among them) counted once and 16-bit and 32-bit instructions alike counted 1;
\* inside the loop it is the number of instructions whose iteration is complete.
C16_CycleCountIsInstructionCount ==
    /\ pc \in {"done", "fetch"} => cycle_count = Len(visited)
    /\ pc = "advance" => cycle_count = Len(visited) - 1
    /\ pc = "done" => cycle_count >= 1

\* A block of a 16-bit instruction and a stopping 32-bit instruction was returned
\* with cycle_count 2.
C16_Witness ==
    /\ pc = "done"
    /\ Len(visited) = 2
    /\ visited[1].size = "Thumb16"
    /\ visited[2].size = "Thumb32"
    /\ visited[2].handler = "InterpretThisInstruction"
    /\ cycle_count = 2

\* The result has been defined by the fast path with FPSCR.DN set.
DefinedUnderDN == x64.stage = "defined" /\ x64.FPSCR_DN

\* C17: in Default-NaN mode, for three- and four-operand operations and both
\* element sizes, every lane of the defined result that is a NaN after the x86
\* operation is 0x7FC00000 (32-bit lanes) or 0x7FF8000000000000 (64-bit lanes),
\* and every lane that is not a NaN keeps the bits the x86 operation produced.
C17_DefaultNaNLanesCanonical ==
    DefinedUnderDN =>
        \A i \in DOMAIN x64.raw :
            IF IsNaN(x64.fsize, x64.raw[i])
            THEN x64.result[i] = (IF x64.fsize = 32 THEN <<\h7FC0, 0>> ELSE <<\h7FF8, 0, 0, 0>>)
            ELSE x64.result[i] = x64.raw[i]

\* A fused multiply-add on 64-bit lanes in Default-NaN mode whose x86 result has
\* a NaN lane that is not the default NaN, replaced in the defined result, next
\* to a lane that is a number.
C17_Witness ==
    /\ DefinedUnderDN
    /\ x64.op = "FPVectorMulAdd"
    /\ x64.fsize = 64
    /\ \E i \in DOMAIN x64.raw :
         IsNaN(64, x64.raw[i]) /\ x64.raw[i] # x64.result[i]
    /\ \E i \in DOMAIN x64.raw :
         ~IsNaN(64, x64.raw[i]) /\ x64.result[i] = Four(64)

\* The instruction runs on the accurate path: accurate NaNs requested, FPSCR.DN clear.
OnAccuratePath == x64.stage # "idle" /\ x64.AccurateNaN /\ ~x64.FPSCR_DN

\* Some lane of some operand is a NaN; some lane of the x86 result is a NaN.
InputNaN ==
    \E n \in DOMAIN x64.inputs : \E i \in DOMAIN x64.inputs[n] :
        IsNaN(x64.fsize, x64.inputs[n][i])

RawNaN == \E i \in DOMAIN x64.raw : IsNaN(x64.fsize, x64.raw[i])

\* C18: on the accurate path of a three- or four-operand operation the far-code
\* fixup runs if and only if some lane of some operand or of the raw result is
\* a NaN; without any NaN only near code runs and the result is the raw x86
\* result, with and without SSE4.1 and for both element sizes.
C18_FarCodeIffSomeNaN ==
    /\ (OnAccuratePath /\ x64.stage = "nan") => (InputNaN \/ RawNaN)
    /\ (OnAccuratePath /\ x64.stage = "defined") =>
          /\ x64.far <=> (InputNaN \/ RawNaN)
          /\ ~(InputNaN \/ RawNaN) => x64.result = x64.raw

\* Without SSE4.1, a fused multiply-add on 64-bit lanes of numbers whose raw
\* result has a NaN lane went through the far code.
C18_Witness ==
    /\ OnAccuratePath
    /\ x64.stage = "defined"
    /\ ~x64.SSE41
    /\ x64.fsize = 64
    /\ x64.op = "FPVectorMulAdd"
    /\ ~InputNaN
    /\ RawNaN
    /\ x64.far

\* With SSE4.1, an addition on 32-bit lanes without any NaN was defined by near
\* code alone.
C18_NearOnly ==
    /\ OnAccuratePath
    /\ x64.stage = "defined"
    /\ x64.SSE41
    /\ x64.fsize = 32
    /\ x64.op = "FPVectorAdd"
    /\ ~InputNaN
    /\ ~RawNaN
    /\ ~x64.far
    /\ x64.result = x64.raw

\* The lane ARM gives for operands a and b and the raw result: FPProcessNaNs over
\* a then b where an operand is a NaN, the default NaN for a raw NaN, else the raw lane.
ARMLane(fsize, a, b, raw) ==
    IF IsSNaN(fsize, a) THEN Quieted(fsize, a)
    ELSE IF IsSNaN(fsize, b) THEN Quieted(fsize, b)
    ELSE IF IsQNaN(fsize, a) THEN a
    ELSE IF IsQNaN(fsize, b) THEN b
    ELSE IF IsNaN(fsize, raw)
         THEN (IF fsize = 32 THEN <<\h7FC0, 0>> ELSE <<\h7FF8, 0, 0, 0>>)
    ELSE raw

\* FADD.F32 of {1.0, qNaN_a, 2.0, qNaN_b} and {3.0, 4.0, sNaN_c, qNaN_d}, the
\* host adding 1.0 and 3.0 to 4.0.
IsFaddExample ==
    /\ x64.op = "FPVectorAdd"
    /\ x64.fsize = 32
    /\ x64.inputs = << << <<\h3F80, 0>>, <<\h7FC0, 1>>, <<\h4000, 0>>, <<\h7FC0, 2>> >>,
                       << <<\h4040, 0>>, <<\h4080, 0>>, <<\h7F80, 3>>, <<\hFFC0, 4>> >> >>
    /\ x64.raw[1] = <<\h4080, 0>>

\* C19: on the accurate path with DN off, each result lane of a lane-wise
\* two-input operation is the FPProcessNaNs choice over the inputs in operand
\* order (a signalling NaN wins and is quieted, otherwise the first quiet NaN)
\* if an input lane is a NaN, else the default NaN if the raw result is a NaN,
\* else the raw result; the FADD.F32 example gives {4.0, qNaN_a, quiet(sNaN_c), qNaN_b}.
C19_AccurateLanesFollowProcessNaNs ==
    (OnAccuratePath /\ x64.stage = "defined" /\ x64.op \in ThreeOps) =>
        /\ \A i \in DOMAIN x64.result :
             x64.result[i] =
                 ARMLane(x64.fsize, x64.inputs[1][i], x64.inputs[2][i], x64.raw[i])
        /\ IsFaddExample =>
             x64.result = << <<\h4080, 0>>, <<\h7FC0, 1>>, <<\h7FC0, 3>>, <<\h7FC0, 2>> >>

\* The example has been run through the far code and defined.
C19_Witness ==
    /\ OnAccuratePath
    /\ x64.stage = "defined"
    /\ IsFaddExample
    /\ x64.far
    /\ x64.result[3] = <<\h7FC0, 3>>

\* A vector max or min has been defined.
MaxMinDefined == x64.stage = "defined" /\ x64.op \in {"FPVectorMax", "FPVectorMin"}

\* What max and min are to give on the lanes a and b of the operands: the
\* bitwise AND (max) or OR (min) where x86 compares them equal, else lane i of
\* the x86 maxp or minp.
SignedZeroLane(i) ==
    LET a == x64.inputs[1][i]
        b == x64.inputs[2][i]
    IN  IF FloatEqual(x64.fsize, a, b)
        THEN [j \in DOMAIN a |-> IF x64.op = "FPVectorMax" THEN And16(a[j], b[j])
                                                           ELSE Or16(a[j], b[j])]
        ELSE IF x64.op = "FPVectorMax"
             THEN maxp(x64.fsize, x64.inputs[1], x64.inputs[2])[i]
             ELSE minp(x64.fsize, x64.inputs[1], x64.inputs[2])[i]

\* C20 as stated: every lane of the result of FPVectorMax is the bitwise AND of
\* the inputs where they compare equal on x86 and the x86 max elsewhere, and
\* every lane of FPVectorMin the bitwise OR or the x86 min.
C20_MaxMinResultLanes ==
    MaxMinDefined => \A i \in DOMAIN x64.result : x64.result[i] = SignedZeroLane(i)

\* C20, amended: the max/min sequence leaves in every lane the bitwise AND (max)
\* or OR (min) of the inputs where they compare equal on x86, so that
\* max(+0, -0) = max(-0, +0) = +0 and min(+0, -0) = min(-0, +0) = -0, and the
\* x86 max/min elsewhere; the defined result keeps that lane wherever neither
\* input is a NaN.
C20_MaxMinLanesBeforeNaNHandling ==
    MaxMinDefined =>
        \A i \in DOMAIN x64.result :
            /\ x64.raw[i] = SignedZeroLane(i)
            /\ (~IsNaN(x64.fsize, x64.inputs[1][i]) /\ ~IsNaN(x64.fsize, x64.inputs[2][i]))
                  => x64.result[i] = x64.raw[i]
            /\ (IsZeroLane(x64.fsize, x64.inputs[1][i])
                    /\ IsZeroLane(x64.fsize, x64.inputs[2][i])
                    /\ x64.inputs[1][i] # x64.inputs[2][i])
                  => x64.result[i] = (IF x64.op = "FPVectorMax" THEN PlusZero(x64.fsize)
                                                                ELSE MinusZero(x64.fsize))

\* Without AVX, max of {+0, -0, 1.0, 2.0} and {-0, +0, 1.0, 1.0} on 32-bit lanes
\* gave {+0, +0, 1.0, 2.0}.
C20_Witness ==
    /\ MaxMinDefined
    /\ x64.op = "FPVectorMax"
    /\ ~x64.AVX
    /\ x64.fsize = 32
    /\ x64.inputs = << << <<0, 0>>, <<\h8000, 0>>, <<\h3F80, 0>>, <<\h4000, 0>> >>,
                       << <<\h8000, 0>>, <<0, 0>>, <<\h3F80, 0>>, <<\h3F80, 0>> >> >>
    /\ x64.result = << <<0, 0>>, <<0, 0>>, <<\h3F80, 0>>, <<\h4000, 0>> >>

\* With AVX, min of the same operands on 64-bit lanes gave {-0, -0}.
C20_MinWitness ==
    /\ MaxMinDefined
    /\ x64.op = "FPVectorMin"
    /\ x64.AVX
    /\ x64.fsize = 64
    /\ x64.inputs = << << <<0, 0, 0, 0>>, <<\h8000, 0, 0, 0>> >>,
                       << <<\h8000, 0, 0, 0>>, <<0, 0, 0, 0>> >> >>
    /\ x64.result = << <<\h8000, 0, 0, 0>>, <<\h8000, 0, 0, 0>> >>

\* FP-to-fixed has been emitted and run: the fast path has returned, or the
\* fallback has defined the result.
ToFixedDone == x64.op = "FPVectorToFixed" /\ x64.stage \in {"returned", "defined"}

ToFixedOnFastPath == ToFixedDone /\ x64.stage = "returned"

\* The register the conversion leaves: src on the fast path, xmm0 on the other.
Converted == IF x64.stage = "returned" THEN x64.src ELSE x64.result

\* C21: on the fast and on the software path, for both element sizes and
\* signednesses, a lane of +infinity or at or above the upper limit converts to
\* the maximum fixed-point value, a lane of -infinity or below the lower limit to
\* the minimum, and a NaN lane to 0.
C21_ToFixedSaturates ==
    ToFixedDone =>
        \A i \in DOMAIN x64.inputs[1] :
            LET lane == x64.inputs[1][i]
                scaled == ScaleBy(x64.fsize, x64.fbits, lane)
                v == RoundToIntegral(x64.fsize, x64.rounding, scaled)
            IN  /\ i \in DOMAIN Converted
                /\ IsNaN(x64.fsize, lane) => Converted[i] = ZeroLane(x64.fsize)
                /\ (~IsNaN(x64.fsize, lane)
                    /\ ~FloatLess(x64.fsize, v, fp_upper_limit(x64.fsize, x64.unsigned_)))
                       => Converted[i] = FixedMax(x64.fsize, x64.unsigned_)
                /\ (~IsNaN(x64.fsize, lane)
                    /\ FloatLess(x64.fsize, v, fp_lower_limit(x64.fsize, x64.unsigned_)))
                       => Converted[i] = FixedMin(x64.fsize, x64.unsigned_)

\* The same on the software path alone.
C21_SoftwareSaturates == ToFixedOnFastPath \/ C21_ToFixedSaturates

\* U32 to single has been emitted without AVX-512 and run under round-to-nearest.
U32ToSingleWithoutAVX512 ==
    /\ x64.op = "FPVectorU32ToSingle"
    /\ x64.stage = "defined"
    /\ ~x64.AVX512
    /\ x64.FPSCR_RMode = "ToNearest_TieEven"

\* C22: without AVX-512 and under round-to-nearest, every lane of the result of
\* U32 to single is the correctly rounded round-to-nearest-even conversion of the
\* input lane, the addition of the bias constant being exact so that only the
\* last addition rounds; {0, 1, 0x7FFFFFFF, 0xFFFFFFFF} gives {0.0, 1.0,
\* 2147483648.0, 4294967296.0}; the AVX and the SSE sequence give the same.
C22_U32ToSingleCorrectlyRounded ==
    U32ToSingleWithoutAVX512 =>
        /\ x64.result = vcvtudq2ps("ToNearest_TieEven", x64.inputs[1])
        /\ x64.exact
        /\ x64.inputs[1] = << <<0, 0>>, <<0, 1>>, <<\h7FFF, \hFFFF>>, <<\hFFFF, \hFFFF>> >>
              => x64.result = << <<0, 0>>, <<\h3F80, 0>>, <<\h4F00, 0>>, <<\h4F80, 0>> >>
        /\ U32ToSingleSequence(TRUE, x64.FPSCR_RMode, x64.inputs[1])
              = U32ToSingleSequence(FALSE, x64.FPSCR_RMode, x64.inputs[1])

\* The SSE sequence has converted a vector with lanes that round up, lanes that
\* round down and a tie.
C22_Witness ==
    /\ U32ToSingleWithoutAVX512
    /\ ~x64.AVX
    /\ x64.inputs[1] = << <<\hFFFF, \h0081>>, <<\hFFFF, \h0180>>,
                          <<\h0100, \h0081>>, <<\h0100, \h0180>> >>
    /\ x64.result = << <<\h4F7F, \hFF01>>, <<\h4F7F, \hFF02>>,
                       <<\h4B80, \h0040>>, <<\h4B80, \h00C0>> >>

\* The example vector has been converted by the AVX sequence.
C22_ExampleWitness ==
    /\ U32ToSingleWithoutAVX512
    /\ x64.AVX
    /\ x64.result = << <<0, 0>>, <<\h3F80, 0>>, <<\h4F00, 0>>, <<\h4F80, 0>> >>

\* An unsigned-integer-to-float conversion has been emitted, run and defined.
FromUnsignedDefined ==
    /\ x64.op \in {"FPVectorU32ToSingle", "FPVectorU64ToDouble"}
    /\ x64.stage = "defined"

\* C23: for U32 to single and U64 to double, with FPSCR.RMode towards minus
\* infinity the sign bit of every lane of the defined result is 0 on every
\* host-feature path, so a lane of 0 gives +0; in the other rounding modes no sign
\* mask is emitted and the result is what the conversion left.
C23_SignClearedTowardsMinusInfinity ==
    FromUnsignedDefined =>
        /\ x64.FPSCR_RMode = "TowardsMinusInfinity" =>
              \A i \in DOMAIN x64.result :
                  /\ ~IsNegative(x64.result[i])
                  /\ x64.inputs[1][i] = ZeroLane(x64.fsize)
                        => x64.result[i] = PlusZero(x64.fsize)
        /\ x64.FPSCR_RMode # "TowardsMinusInfinity" =>
              ~x64.sign_mask /\ x64.result = x64.raw

\* Rounding towards minus infinity, the two-halves sequence left -0 in a lane of
\* U32 to single and the mask made it +0.
C23_Witness ==
    /\ FromUnsignedDefined
    /\ x64.op = "FPVectorU32ToSingle"
    /\ x64.FPSCR_RMode = "TowardsMinusInfinity"
    /\ ~x64.AVX512
    /\ x64.sign_mask
    /\ \E i \in DOMAIN x64.result :
         x64.raw[i] = MinusZero(32) /\ x64.result[i] = PlusZero(32)

\* The same for U64 to double.
C23_DoubleWitness ==
    /\ FromUnsignedDefined
    /\ x64.op = "FPVectorU64ToDouble"
    /\ x64.FPSCR_RMode = "TowardsMinusInfinity"
    /\ \E i \in DOMAIN x64.result :
         x64.raw[i] = MinusZero(64) /\ x64.result[i] = PlusZero(64)

\* The registers an emitter may define the result on.
ClobberableRegisters == {"UseScratchXmm", "ScratchXmm", "xmm0 after HostCall"}

\* C24: every vector emitter, on every path, binds the result with DefineValue
\* exactly once, after the code that computes it, to a register obtained as
\* clobberable; no path returns without defining the result.
C24_ResultDefinedExactlyOnce ==
    /\ x64.stage \in {"start", "nan"} => x64.defines = 0
    /\ x64.stage \in {"defined", "returned"} =>
          x64.defines = 1 /\ x64.defined_reg \in ClobberableRegisters

\* The same for every path but the fast path of FP-to-fixed.
C24_DefinedOnceElsewhere == ToFixedOnFastPath \/ C24_ResultDefinedExactlyOnce

\* Lane i of a limit mask is set.
LowerMaskSet(i) == x64.lower_limit_mask[i] = OnesLane(x64.fsize)
UpperMaskSet(i) == x64.upper_limit_mask[i] = OnesLane(x64.fsize)

\* Lane i of src after scaling and rounding is below the lower limit; is at or
\* above the upper limit.
BelowLower(i) ==
    FloatLess(x64.fsize, x64.rounded[i], fp_lower_limit(x64.fsize, x64.unsigned_))
AtOrAboveUpper(i) ==
    ~FloatLess(x64.fsize, x64.rounded[i], fp_upper_limit(x64.fsize, x64.unsigned_))

\* C25: on the AVX fast path of FP-to-fixed the limit masks follow the table in
\* the code: a NaN lane sets neither; src < lower sets only the lower mask;
\* lower <= src < upper sets neither and the lane passes the two vandnp
\* unchanged; src >= upper sets only the upper mask.
C25_LimitMasksFollowTable ==
    ToFixedOnFastPath =>
        \A i \in DOMAIN x64.rounded :
            IF IsNaN(x64.fsize, x64.rounded[i]) THEN ~LowerMaskSet(i) /\ ~UpperMaskSet(i)
            ELSE IF BelowLower(i) THEN LowerMaskSet(i) /\ ~UpperMaskSet(i)
            ELSE IF AtOrAboveUpper(i) THEN ~LowerMaskSet(i) /\ UpperMaskSet(i)
            ELSE /\ ~LowerMaskSet(i)
                 /\ ~UpperMaskSet(i)
                 /\ x64.src[i] = x64.rounded[i]

\* The upper-limit mask alone follows the table.
C25_UpperLimitMaskFollowsTable ==
    ToFixedOnFastPath =>
        \A i \in DOMAIN x64.rounded :
            UpperMaskSet(i) <=>
                (~IsNaN(x64.fsize, x64.rounded[i]) /\ AtOrAboveUpper(i))

\* The carry out of bit 31 of a + b + carry_in.
CarryOut(a, b, carry_in) ==
    LET low == a.lo + b.lo + carry_in
    IN  IF a.hi + b.hi + (low \div 65536) >= 65536 THEN 1 ELSE 0

\* The signed overflow of a + b + carry_in.
OverflowOut(a, b, carry_in) ==
    LET low == a.lo + b.lo + carry_in
        high == (a.hi + b.hi + (low \div 65536)) % 65536
    IN  IF (a.hi >= 32768) = (b.hi >= 32768) /\ (high >= 32768) # (a.hi >= 32768)
        THEN 1 ELSE 0

\* The guest flags and the one-bit results after instructions i.. of blk, from
\* the state st: a get yields the flag as it is then, a set stores its operand,
\* an invalidated instruction does nothing.
RECURSIVE RunFlags(_, _, _)
RunFlags(blk, i, st) ==
    IF i > Len(blk) THEN st
    ELSE LET ins == blk[i]
             value(x) == IF IsImmediate(x) THEN x.v.lo ELSE st.vals[x.ref]
             gets == {F \in Flags : ins.op = GetFlagOp(F)}
             sets == {F \in Flags : ins.op = SetFlagOp(F)}
             add == blk[ins.args[1].ref]
             result ==
                 CASE gets # {} -> st.flags[CHOOSE F \in gets : TRUE]
                   [] ins.op = "GetCarryFromOp" ->
                         CarryOut(add.args[1].v, add.args[2].v, value(add.args[3]))
                   [] ins.op = "GetOverflowFromOp" ->
                         OverflowOut(add.args[1].v, add.args[2].v, value(add.args[3]))
                   [] OTHER -> 0
             flags == IF sets = {} THEN st.flags
                      ELSE [st.flags EXCEPT ![CHOOSE F \in sets : TRUE] = value(ins.args[1])]
         IN  RunFlags(blk, i + 1, [flags |-> flags, vals |-> Append(st.vals, result)])

\* The guest flags on entry to a block.
EntryFlags == [Flags -> {0, 1}]

\* Running blk and its successor under the pass from the same flags gives the
\* same C flag at exit and the same value to every GetCFlag.
SameCFlag(before, after) ==
    \A entry \in EntryFlags :
        LET b == RunFlags(before, 1, [flags |-> entry, vals |-> <<>>])
            a == RunFlags(after, 1, [flags |-> entry, vals |-> <<>>])
        IN  /\ a.flags["C"] = b.flags["C"]
            /\ \A j \in 1..Len(before) :
                  before[j].op = "A32GetCFlag" => a.vals[j] = b.vals[j]

\* C26: invalidating SetCFlag(x), x the result of an earlier GetCFlag, preserves
\* the guest C flag: for every block, also one with another SetCFlag between
\* that GetCFlag and the removed SetCFlag, the C flag at block exit and the
\* value every GetCFlag sees are the same before and after the pass.
C26_CFlagPreserved == pass_runs >= 1 => SameCFlag(prev_block, block)

\* A SetCFlag lies between instruction i of blk and the instruction that defines
\* its operand.
InterveningSetCFlag(blk, i) ==
    \E k \in (blk[i].args[1].ref + 1)..(i - 1) : blk[k].op = "A32SetCFlag"

\* Without a SetCFlag in between, the C flag is preserved.
C26_CFlagPreservedWithoutInterveningSet ==
    (/\ pass_runs >= 1
     /\ \A i \in 1..Len(prev_block) :
           SetsFlagFromGet(prev_block, i, "C") => ~InterveningSetCFlag(prev_block, i))
        => SameCFlag(prev_block, block)

\* A vector max or min has been emitted and its x86 sequence run.
MaxMinRun ==
    /\ x64.op \in {"FPVectorMax", "FPVectorMin"}
    /\ x64.stage \in {"nan", "defined"}

\* What the sequence for the host without AVX, and for the host with AVX, gives
\* for the operation and operands of x64.
MaxMinSequence(avx) ==
    IF x64.op = "FPVectorMax"
    THEN FPVectorMax(x64.fsize, avx, x64.inputs[1], x64.inputs[2])
    ELSE FPVectorMin(x64.fsize, avx, x64.inputs[1], x64.inputs[2])

\* C27: the AVX and the non-AVX sequence of vector max and of vector min give
\* the same result in every lane for every pair of inputs, NaNs, infinities,
\* equal values and differently signed zeros included.
C27_MaxMinSequencesAgree ==
    MaxMinRun =>
        /\ MaxMinSequence(TRUE) = MaxMinSequence(FALSE)
        /\ x64.raw = MaxMinSequence(~x64.AVX)

\* The AVX sequence of max has run on lanes of differently signed zeros, of
\* equal values and of different values.
C27_Witness ==
    /\ MaxMinRun
    /\ x64.op = "FPVectorMax"
    /\ x64.AVX
    /\ x64.fsize = 32
    /\ x64.inputs = << <<PlusZero(32), MinusZero(32), One(32), Two(32)>>,
                       <<MinusZero(32), PlusZero(32), One(32), One(32)>> >>
    /\ x64.raw = <<PlusZero(32), PlusZero(32), One(32), Two(32)>>

\* The non-AVX sequence of min has run on lanes with NaNs and an infinity.
C27_NaNWitness ==
    /\ MaxMinRun
    /\ x64.op = "FPVectorMin"
    /\ ~x64.AVX
    /\ x64.fsize = 32
    /\ x64.inputs = << <<One(32), Two(32), PlusInf(32), Four(32)>>,
                       <<Two(32), qNaN_b(32), sNaN_c(32), One(32)>> >>
    /\ x64.raw = <<One(32), qNaN_b(32), sNaN_c(32), One(32)>>

\* A paired operation has been emitted and its x86 sequence run.
PairedRun == x64.op \in PairedOps /\ x64.stage \in {"nan", "defined"}

\* The two elements the emitted sequence adds into each element of the result.
Addends ==
    IF x64.op = "FPVectorPairedAdd" THEN haddp(x64.inputs[1], x64.inputs[2])
    ELSE PairedAddLower(x64.fsize, x64.inputs[1], x64.inputs[2])

\* The operands NaNHandler takes for element i of the result.
Inspected(i) ==
    IndexerCall(IF x64.op = "FPVectorPairedAdd" THEN "PairedIndexer"
                ELSE "PairedLowerIndexer", i, x64.inputs)

\* C28: for the paired operations the operands the NaN fixup inspects for lane i
\* are the two elements the x86 sequence adds into lane i: for PairedAdd adjacent
\* pairs of a, then of b; for PairedAddLower of 32 bits (a0, a1), (b0, b1), (0, 0),
\* (0, 0); for PairedAddLower of 64 bits (a0, b0), (0, 0).
C28_IndexersMatchAddends ==
    PairedRun =>
        LET a == x64.inputs[1]
            b == x64.inputs[2]
            zero == ZeroLane(x64.fsize)
        IN  /\ \A i \in DOMAIN a : Inspected(i) = Addends[i]
            /\ (x64.op = "FPVectorPairedAdd" /\ x64.fsize = 32) =>
                  /\ Inspected(1) = <<a[1], a[2]>> /\ Inspected(2) = <<a[3], a[4]>>
                  /\ Inspected(3) = <<b[1], b[2]>> /\ Inspected(4) = <<b[3], b[4]>>
            /\ (x64.op = "FPVectorPairedAdd" /\ x64.fsize = 64) =>
                  Inspected(1) = <<a[1], a[2]>> /\ Inspected(2) = <<b[1], b[2]>>
            /\ (x64.op = "FPVectorPairedAddLower" /\ x64.fsize = 32) =>
                  /\ Inspected(1) = <<a[1], a[2]>> /\ Inspected(2) = <<b[1], b[2]>>
                  /\ Inspected(3) = <<zero, zero>> /\ Inspected(4) = <<zero, zero>>
            /\ (x64.op = "FPVectorPairedAddLower" /\ x64.fsize = 64) =>
                  Inspected(1) = <<a[1], b[1]>> /\ Inspected(2) = <<zero, zero>>
            /\ (OnAccuratePath /\ x64.stage = "defined" /\ x64.far) =>
                  \A i \in DOMAIN a :
                      ProcessNaNs(x64.fsize, Addends[i]).has =>
                          x64.result[i] = ProcessNaNs(x64.fsize, Addends[i]).value

\* A paired add of 32-bit lanes went through the far code: the NaN of an addend
\* of lane 1 is in lane 1 of the result, and lane 2, whose addends are numbers
\* though the same lane of an operand is a NaN, holds a number.
C28_Witness ==
    /\ PairedRun
    /\ x64.op = "FPVectorPairedAdd"
    /\ x64.fsize = 32
    /\ x64.stage = "defined"
    /\ x64.far
    /\ x64.inputs = << <<One(32), qNaN_a(32), Two(32), qNaN_b(32)>>,
                       <<PlusZero(32), MinusZero(32), One(32), Two(32)>> >>
    /\ x64.result[1] = qNaN_a(32)
    /\ x64.result[2] = qNaN_b(32)
    /\ x64.result[4] = Four(32)

\* The lower paired add of 64-bit lanes has run.
C28_LowerWitness ==
    /\ PairedRun
    /\ x64.op = "FPVectorPairedAddLower"
    /\ x64.fsize = 64
    /\ x64.stage = "defined"
    /\ x64.far
    /\ IsNaN(64, x64.inputs[2][1])
    /\ IsNaN(64, x64.result[1])
    /\ ~IsNaN(64, x64.result[2])

\* The emitted code has made its out-of-line call and is back at the rejoin point.
AfterOutOfLineCall == x64.stage = "defined" /\ x64.stack.calls >= 1

\* C29: across the far code of HandleNaNs and across the two-, three- and
\* four-operand fallbacks, on the Windows and on the System V layout, rsp at the
\* rejoin point is rsp on entry, every sub and push being undone by the matching
\* add and pop in reverse order; every slot stored to or loaded from lies in the
\* reserved space; the result is reloaded from the slot whose address was passed
\* as the first argument.
C29_StackBalanced ==
    AfterOutOfLineCall =>
        /\ x64.stack.calls = 1
        /\ x64.stack.rsp = 0
        /\ x64.stack.frames = <<>>
        /\ x64.stack.pushed = <<>>
        /\ ~x64.stack.underflow
        /\ \A n \in DOMAIN x64.stack.accesses :
              LET access == x64.stack.accesses[n]
              IN  access.lo <= access.addr /\ access.addr + access.size <= access.hi
        /\ x64.stack.reload = x64.stack.params[1]

\* The three-operand fallback has run on the Windows layout: four slots and the
\* shadow space reserved, the result reloaded from the second slot.
C29_Witness ==
    /\ AfterOutOfLineCall
    /\ x64.op \in ThreeOpFallbackOps
    /\ x64.abi = "Windows"
    /\ x64.stack.reload = -(4 * 16 + 32) + 32 + 16
    /\ Len(x64.stack.accesses) = 4

\* The far code of HandleNaNs has run on the System V layout for a
\* four-operand instruction.
C29_FarCodeWitness ==
    /\ AfterOutOfLineCall
    /\ x64.far
    /\ x64.op \in FourOps
    /\ x64.abi = "SysV"
    /\ Len(x64.stack.accesses) = 5
    /\ x64.stack.reload = -8 - 8 * Len(CallerSaveRegisters("SysV")) - 4 * 16

\* Every instruction visited before the last one let translation continue.
EarlierContinued == \A n \in 1..(Len(visited) - 1) : visited[n].ret

\* The loop is left exactly at a stop: while it runs every visited instruction
\* has returned continue; when it has returned, the last visited instruction is
\* the first that returned stop and one cycle was counted for each; the process
\* ends inside the visitor only on its assertion.
LeftExactlyAtStop ==
    /\ pc = "fetch" => \A n \in 1..Len(visited) : visited[n].ret
    /\ pc = "advance" => EarlierContinued /\ visited[Len(visited)].ret = should_continue
    /\ pc = "done" =>
          /\ visited # <<>>
          /\ EarlierContinued
          /\ ~visited[Len(visited)].ret
          /\ cycle_count = Len(visited)
    /\ pc = "aborted" => EarlierContinued /\ visited[Len(visited)].asserted

\* C30: the loop of TranslateThumb ends exactly when a visitor returns stop and
\* translates nothing after it: from every start PC, the PC wrapping modulo
\* 2^32, a stream that holds such an instruction is left after finitely many
\* fetches, and nothing else bounds the length of the block.
C30_LoopEndsExactlyAtStop ==
    /\ []LeftExactlyAtStop
    /\ <>(pc \in {"done", "aborted"})
    /\ (pc = "advance" /\ ~should_continue) ~> (pc = "done")

\* The loop has returned after three instructions, its PC having wrapped from
\* 0xFFFFFFFE to 0.
C30_Witness ==
    /\ pc = "done"
    /\ Len(visited) = 3
    /\ descriptor = U32(\hFFFF, \hFFFC)
    /\ visited[3].arm_pc = U32(0, 0)
    /\ current_location = U32(0, 2)

====
